---- MODULE Spec2Model ----
(***************************************************************************)
(* A model of the JKD Coach scoring core (ncode3/jkd-coach):               *)
(*   - calculate_danger / get_strategy            (src/app.py)             *)
(*   - video_form_and_danger                      (src/src/risk_model.py)  *)
(*   - VideoAnalyzer.analyze_video                (src/src/video_analyzer.py) *)
(*   - the Flask handlers that call them          (src/app.py)             *)
(*                                                                         *)
(* Python floats are modelled as exact rationals [num, den] in lowest      *)
(* terms; a float literal such as 0.7 is the rational 7/10.                *)
(***************************************************************************)
EXTENDS Integers, Sequences, FiniteSets, TLC

\* ------------------------------------------------------------------ bounds

\* Danger scores given to get_strategy are n/d with 1 <= d <= MaxDen.
MaxDen == 12
\* Manual scores are k/2 for k in 0..MaxScoreHalves (so up to 12.0, above 10).
MaxScoreHalves == 24
\* clean_shots_taken ranges over 0..MaxShots.
MaxShots == 12
\* guard_down_ratio and pose_coverage given to video_form_and_danger are the
\* rationals of [0,1] with a denominator of at most MaxRatioDen.
MaxRatioDen == 8
\* A video holds at most MaxFrames frames.
MaxFrames == 4
\* At most MaxRounds round documents are ever added to the store.
MaxRounds == 2

\* ------------------------------------------------------------- rationals

RECURSIVE GCD(_, _)
GCD(a, b) == IF b = 0 THEN a ELSE GCD(b, a % b)

Abs(x) == IF x < 0 THEN -x ELSE x

\* The rational n/d (d # 0) in lowest terms with a positive denominator.
Rat(n, d) ==
    LET g == GCD(Abs(n), Abs(d))
        s == IF d < 0 THEN -1 ELSE 1
    IN  [num |-> (s * n) \div g, den |-> (s * d) \div g]

Int2Rat(n) == [num |-> n, den |-> 1]
Zero == Int2Rat(0)
One == Int2Rat(1)

RatAdd(a, b) == Rat(a.num * b.den + b.num * a.den, a.den * b.den)
RatSub(a, b) == Rat(a.num * b.den - b.num * a.den, a.den * b.den)
RatMul(a, b) == Rat(a.num * b.num, a.den * b.den)
\* a / b, for b # 0
RatDiv(a, b) == Rat(a.num * b.den, a.den * b.num)
RatGE(a, b) == a.num * b.den >= b.num * a.den
RatGT(a, b) == a.num * b.den > b.num * a.den
RatLT(a, b) == RatGT(b, a)
RatLE(a, b) == RatGE(b, a)
\* Python's max(a, b) and min(a, b): the first argument wins a tie.
RatMax(a, b) == IF RatGT(b, a) THEN b ELSE a
RatMin(a, b) == IF RatLT(b, a) THEN b ELSE a

\* ------------------------------------------------------- strategy table

DEFENSE_FIRST ==
    <<"DEFENSE_FIRST",
      "High guard, active feet. Max 2-punch combos. Pump the jab, angle off. Do not trade.">>
RING_CUTTING ==
    <<"RING_CUTTING",
      "Smart pressure. Cut exits, feint to draw counters. No ego wars. Control space.">>
PRESSURE_BODY ==
    <<"PRESSURE_BODY",
      "Walk him down. Invest in the body and arms. Bully, clinch, drown him.">>

\* A plausible slip: strict comparisons, so a score on a boundary falls into
\* the lower tier.
get_strategy_strict(danger_score) ==
    IF RatGT(danger_score, Rat(7, 10)) THEN DEFENSE_FIRST
    ELSE IF RatGT(danger_score, Rat(4, 10)) THEN RING_CUTTING
    ELSE PRESSURE_BODY

get_strategy(danger_score) ==
    IF RatGE(danger_score, Rat(7, 10)) THEN DEFENSE_FIRST
    ELSE IF RatGE(danger_score, Rat(4, 10)) THEN RING_CUTTING
    ELSE PRESSURE_BODY

\* deployments/openshift/app.py, lines 78-107.
get_strategy_openshift(danger_score) ==
    IF RatGE(danger_score, Rat(7, 10))
    THEN <<"DEFENSE_FIRST",
           "High guard, active feet. Max 2-punch combos. Pump the jab, angle off. Do not trade.">>
    ELSE IF RatGE(danger_score, Rat(4, 10))
    THEN <<"RING_CUTTING",
           "Smart pressure. Cut exits, feint to draw counters. No ego wars. Control space.">>
    ELSE <<"PRESSURE_BODY",
           "Walk him down. Invest in the body and arms. Bully, clinch, drown him.">>

\* A plausible slip in one copy of the table: the lower threshold drifts.
get_strategy_fastapi_drifted(danger_score) ==
    IF RatGE(danger_score, Rat(7, 10))
    THEN <<"DEFENSE_FIRST",
           "High guard, active feet. Max 2-punch combos. Pump the jab, angle off. Do not trade.">>
    ELSE IF RatGE(danger_score, Rat(5, 10))
    THEN <<"RING_CUTTING",
           "Smart pressure. Cut exits, feint to draw counters. No ego wars. Control space.">>
    ELSE <<"PRESSURE_BODY",
           "Walk him down. Invest in the body and arms. Bully, clinch, drown him.">>

\* deployments/fastapi-auth/api_server.py, lines 97-104.
get_strategy_fastapi(danger_score) ==
    IF RatGE(danger_score, Rat(7, 10))
    THEN <<"DEFENSE_FIRST",
           "High guard, active feet. Max 2-punch combos. Pump the jab, angle off. Do not trade.">>
    ELSE IF RatGE(danger_score, Rat(4, 10))
    THEN <<"RING_CUTTING",
           "Smart pressure. Cut exits, feint to draw counters. No ego wars. Control space.">>
    ELSE <<"PRESSURE_BODY",
           "Walk him down. Invest in the body and arms. Bully, clinch, drown him.">>

\* ------------------------------------------------------- manual scoring

\* A field a dict does not hold.
Absent == [absent |-> TRUE]
\* key in dict, for a record whose missing keys are left out or set to Absent.
Has(dict, key) == key \in DOMAIN dict /\ dict[key] # Absent
\* dict.get(key, default)
Get(dict, key, default) == IF Has(dict, key) THEN dict[key] ELSE default

\* A plausible slip: the upper clamp is forgotten.
calculate_danger_noclamp(round_data) ==
    LET clean == RatDiv(Get(round_data, "clean_shots_taken", Zero), Int2Rat(5))
        defense == RatDiv(RatSub(Int2Rat(10), Get(round_data, "defense_score", Int2Rat(5))),
                          Int2Rat(10))
        control == RatDiv(RatSub(Int2Rat(10), Get(round_data, "ring_control_score", Int2Rat(5))),
                          Int2Rat(10))
        score == RatAdd(RatAdd(RatMul(Rat(5, 10), clean), RatMul(Rat(3, 10), defense)),
                        RatMul(Rat(2, 10), control))
    IN  RatMax(Zero, score)

\* A plausible slip: the weights of defense and ring control are exchanged.
calculate_danger_swapped(round_data) ==
    LET clean == RatDiv(Get(round_data, "clean_shots_taken", Zero), Int2Rat(5))
        defense == RatDiv(RatSub(Int2Rat(10), Get(round_data, "defense_score", Int2Rat(5))),
                          Int2Rat(10))
        control == RatDiv(RatSub(Int2Rat(10), Get(round_data, "ring_control_score", Int2Rat(5))),
                          Int2Rat(10))
        score == RatAdd(RatAdd(RatMul(Rat(5, 10), clean), RatMul(Rat(2, 10), defense)),
                        RatMul(Rat(3, 10), control))
    IN  RatMax(Zero, RatMin(score, One))

calculate_danger(round_data) ==
    LET clean == RatDiv(Get(round_data, "clean_shots_taken", Zero), Int2Rat(5))
        defense == RatDiv(RatSub(Int2Rat(10), Get(round_data, "defense_score", Int2Rat(5))),
                          Int2Rat(10))
        control == RatDiv(RatSub(Int2Rat(10), Get(round_data, "ring_control_score", Int2Rat(5))),
                          Int2Rat(10))
        score == RatAdd(RatAdd(RatMul(Rat(5, 10), clean), RatMul(Rat(3, 10), defense)),
                        RatMul(Rat(2, 10), control))
    IN  RatMax(Zero, RatMin(score, One))

\* ------------------------------------------------------- video scoring

\* A plausible slip: the weights of guard and coverage are exchanged.
video_form_and_danger_swapped(stats) ==
    LET guard_down == Get(stats, "guard_down_ratio", Zero)
        pose_cov == Get(stats, "pose_coverage", Zero)
        danger0 == RatAdd(RatMul(Rat(4, 10), guard_down),
                          RatMul(Rat(6, 10), RatSub(One, pose_cov)))
        danger == RatMax(Zero, RatMin(One, danger0))
        form0 == RatSub(RatSub(Int2Rat(10), RatMul(guard_down, Int2Rat(5))),
                        RatMul(RatSub(One, pose_cov), Int2Rat(2)))
        form == RatMax(Zero, RatMin(Int2Rat(10), form0))
        focus == IF RatGE(danger, Rat(7, 10)) THEN "defense_first"
                 ELSE IF RatGE(danger, Rat(4, 10)) THEN "ring_cutting"
                 ELSE "pressure_and_body"
    IN  [video_danger_score |-> danger, video_form_score |-> form,
         video_focus_next_round |-> focus] @@ stats

\* out = dict(stats) with the three new keys set: the new keys win.
video_form_and_danger(stats) ==
    LET guard_down == Get(stats, "guard_down_ratio", Zero)
        pose_cov == Get(stats, "pose_coverage", Zero)
        danger0 == RatAdd(RatMul(Rat(6, 10), guard_down),
                          RatMul(Rat(4, 10), RatSub(One, pose_cov)))
        danger == RatMax(Zero, RatMin(One, danger0))
        form0 == RatSub(RatSub(Int2Rat(10), RatMul(guard_down, Int2Rat(5))),
                        RatMul(RatSub(One, pose_cov), Int2Rat(2)))
        form == RatMax(Zero, RatMin(Int2Rat(10), form0))
        focus == IF RatGE(danger, Rat(7, 10)) THEN "defense_first"
                 ELSE IF RatGE(danger, Rat(4, 10)) THEN "ring_cutting"
                 ELSE "pressure_and_body"
    IN  [video_danger_score |-> danger, video_form_score |-> form,
         video_focus_next_round |-> focus] @@ stats

\* ------------------------------------------------------- video analysis

\* Python's None.
None == [none |-> TRUE]

\* An exception: its type and the text str(e) gives, as a sequence of strings.
Exception(type, text) == [type |-> type, text |-> text]

GUARD_DOWN_THRESHOLD == Rat(15, 100)

\* The coordinates of the nine landmarks _extract_frame_metrics reads, as
\* rationals in normalized image coordinates.
Landmarks(lsy, lwy, rsy, rwy, lhx, rhx, lax, rax, ny) ==
    [left_shoulder_y |-> Rat(lsy, 100), left_wrist_y |-> Rat(lwy, 100),
     right_shoulder_y |-> Rat(rsy, 100), right_wrist_y |-> Rat(rwy, 100),
     left_hip_x |-> Rat(lhx, 100), right_hip_x |-> Rat(rhx, 100),
     left_ankle_x |-> Rat(lax, 100), right_ankle_x |-> Rat(rax, 100),
     nose_y |-> Rat(ny, 100)]

RatAbs(a) == IF a.num < 0 THEN [num |-> -a.num, den |-> a.den] ELSE a

_extract_frame_metrics(lmk) ==
    [left_guard_height |-> RatSub(lmk.left_wrist_y, lmk.left_shoulder_y),
     right_guard_height |-> RatSub(lmk.right_wrist_y, lmk.right_shoulder_y),
     hip_rotation |-> RatAbs(RatSub(lmk.left_hip_x, lmk.right_hip_x)),
     stance_width |-> RatAbs(RatSub(lmk.left_ankle_x, lmk.right_ankle_x)),
     head_y |-> lmk.nose_y]

\* What the frame source and the pose detector do at one frame position:
\*   read_fail  cap.read() returns ret = False for this frame (it cannot be decoded)
\*   no_pose    the frame is read, the detector finds no person
\*   pose       the frame is read, the detector returns a landmark set
\*   raises     the frame is read, and cv2.cvtColor or pose.process raises
ReadFailFrame == [kind |-> "read_fail"]
NoPoseFrame == [kind |-> "no_pose"]
PoseFrame(lmk) == [kind |-> "pose", landmarks |-> lmk]
RaisingFrame(at, type) == [kind |-> "raises", at |-> at, type |-> type]

\* The locals of analyze_video at lines 103-113.
InitLocals ==
    [frame_idx |-> 0, pose_detected_frames |-> 0, guard_down_frames |-> 0,
     left_guard_sum |-> Zero, right_guard_sum |-> Zero, hip_rotation_sum |-> Zero,
     stance_width_sum |-> Zero, head_y_sum |-> Zero, head_y_values |-> <<>>]

\* A plausible slip: a frame is counted as guard-down whenever a pose is
\* detected, so the counter no longer depends on the guard heights.
GuardIsDown_always(metrics) == TRUE

\* A plausible slip: the comparison with the threshold is not strict.
GuardIsDown_inclusive(metrics) ==
    \/ RatGE(metrics.left_guard_height, GUARD_DOWN_THRESHOLD)
    \/ RatGE(metrics.right_guard_height, GUARD_DOWN_THRESHOLD)

GuardIsDown(metrics) ==
    \/ RatGT(metrics.left_guard_height, GUARD_DOWN_THRESHOLD)
    \/ RatGT(metrics.right_guard_height, GUARD_DOWN_THRESHOLD)

\* Lines 129-146: the accumulation for a frame with a detection.
Accumulate(loc, lmk) ==
    LET metrics == _extract_frame_metrics(lmk)
    IN  [loc EXCEPT
            !.pose_detected_frames = @ + 1,
            !.left_guard_sum = RatAdd(@, metrics.left_guard_height),
            !.right_guard_sum = RatAdd(@, metrics.right_guard_height),
            !.hip_rotation_sum = RatAdd(@, metrics.hip_rotation),
            !.stance_width_sum = RatAdd(@, metrics.stance_width),
            !.head_y_sum = RatAdd(@, metrics.head_y),
            !.head_y_values = Append(@, metrics.head_y),
            !.guard_down_frames = IF GuardIsDown(metrics) THEN @ + 1 ELSE @]

\* A plausible slip: frame_idx is incremented only inside the branch for a
\* detected pose.
LoopBody_countdetected(loc, frame) ==
    LET counted == [loc EXCEPT !.frame_idx = @ + 1]
    IN  CASE frame.kind = "raises" /\ frame.at = "cvtColor" ->
                [loc |-> loc, detector_called |-> FALSE,
                 exc |-> Exception(frame.type, <<"cvtColor failed">>)]
          [] frame.kind = "raises" /\ frame.at = "process" ->
                [loc |-> loc, detector_called |-> TRUE,
                 exc |-> Exception(frame.type, <<"pose.process failed">>)]
          [] frame.kind = "no_pose" ->
                [loc |-> loc, detector_called |-> TRUE, exc |-> None]
          [] frame.kind = "pose" ->
                [loc |-> Accumulate(counted, frame.landmarks),
                 detector_called |-> TRUE, exc |-> None]

\* A plausible slip: to save time the detector is run on every second frame
\* only, and the frames between are taken as frames without a pose.
LoopBody_sampled(loc, frame) ==
    LET counted == [loc EXCEPT !.frame_idx = @ + 1]
    IN  CASE counted.frame_idx % 2 = 0 ->
                [loc |-> counted, detector_called |-> FALSE, exc |-> None]
          [] counted.frame_idx % 2 # 0 /\ frame.kind = "raises" /\ frame.at = "cvtColor" ->
                [loc |-> counted, detector_called |-> FALSE,
                 exc |-> Exception(frame.type, <<"cvtColor failed">>)]
          [] counted.frame_idx % 2 # 0 /\ frame.kind = "raises" /\ frame.at = "process" ->
                [loc |-> counted, detector_called |-> TRUE,
                 exc |-> Exception(frame.type, <<"pose.process failed">>)]
          [] counted.frame_idx % 2 # 0 /\ frame.kind = "no_pose" ->
                [loc |-> counted, detector_called |-> TRUE, exc |-> None]
          [] counted.frame_idx % 2 # 0 /\ frame.kind = "pose" ->
                [loc |-> Accumulate(counted, frame.landmarks),
                 detector_called |-> TRUE, exc |-> None]

\* Lines 123-146: the loop body for a frame that was read (ret = True).  It
\* gives the locals after the body, whether pose.process was called, and the
\* exception that left the body, if any.
LoopBody(loc, frame) ==
    LET counted == [loc EXCEPT !.frame_idx = @ + 1]
    IN  CASE frame.kind = "raises" /\ frame.at = "cvtColor" ->
                [loc |-> counted, detector_called |-> FALSE,
                 exc |-> Exception(frame.type, <<"cvtColor failed">>)]
          [] frame.kind = "raises" /\ frame.at = "process" ->
                [loc |-> counted, detector_called |-> TRUE,
                 exc |-> Exception(frame.type, <<"pose.process failed">>)]
          [] frame.kind = "no_pose" ->
                [loc |-> counted, detector_called |-> TRUE, exc |-> None]
          [] frame.kind = "pose" ->
                [loc |-> Accumulate(counted, frame.landmarks),
                 detector_called |-> TRUE, exc |-> None]

\* n / d as Python computes it: ZeroDivisionError when d = 0.
ZeroDivisionError == Exception("ZeroDivisionError", <<"division by zero">>)
Divide(n, d) == IF d = Zero THEN ZeroDivisionError ELSE RatDiv(n, d)

RECURSIVE SumSquares(_)
SumSquares(ys) ==
    IF ys = <<>> THEN Zero ELSE RatAdd(RatMul(Head(ys), Head(ys)), SumSquares(Tail(ys)))
RECURSIVE Sum(_)
Sum(ys) == IF ys = <<>> THEN Zero ELSE RatAdd(Head(ys), Sum(Tail(ys)))

\* The least k >= from with k * k >= n.
RECURSIVE CeilSqrt(_, _)
CeilSqrt(n, from) == IF from * from >= n THEN from ELSE CeilSqrt(n, from + 1)

\* The square root of a rational q >= 0 in lowest terms: a rational when q is
\* a square, and otherwise the symbolic value [sqrt_of |-> q].
Sqrt(q) ==
    LET n == CeilSqrt(q.num, 0)
        d == CeilSqrt(q.den, 1)
    IN  IF n * n = q.num /\ d * d = q.den
        THEN [num |-> n, den |-> d]
        ELSE [sqrt_of |-> q]

\* np.std: the population standard deviation of a non-empty list.
NpStd(ys) ==
    LET n == Int2Rat(Len(ys))
        mean == RatDiv(Sum(ys), n)
    IN  Sqrt(RatSub(RatDiv(SumSquares(ys), n), RatMul(mean, mean)))

\* A plausible slip: the guard against an empty video is forgotten.
PoseCoverage_unguarded(loc) ==
    Divide(Int2Rat(loc.pose_detected_frames), Int2Rat(loc.frame_idx))

\* Line 152.
PoseCoverage(loc) ==
    IF loc.frame_idx > 0
    THEN Divide(Int2Rat(loc.pose_detected_frames), Int2Rat(loc.frame_idx))
    ELSE Zero

\* Line 153.
GuardDownRatio(loc) ==
    IF loc.pose_detected_frames > 0
    THEN Divide(Int2Rat(loc.guard_down_frames), Int2Rat(loc.pose_detected_frames))
    ELSE Zero

\* Lines 150-191: the record analyze_video returns, or the exception a
\* division raises.
Aggregate(loc) ==
    LET total_frames == loc.frame_idx
        n == Int2Rat(loc.pose_detected_frames)
        pose_coverage == PoseCoverage(loc)
        guard_down_ratio == GuardDownRatio(loc)
        detected == loc.pose_detected_frames > 0
        avg_left_guard == IF detected THEN RatDiv(loc.left_guard_sum, n) ELSE Zero
        avg_right_guard == IF detected THEN RatDiv(loc.right_guard_sum, n) ELSE Zero
        avg_hip_rotation == IF detected THEN RatDiv(loc.hip_rotation_sum, n) ELSE Zero
        avg_stance_width == IF detected THEN RatDiv(loc.stance_width_sum, n) ELSE Zero
        head_movement_score ==
            IF detected /\ Len(loc.head_y_values) > 1
            THEN NpStd(loc.head_y_values) ELSE Zero
        avg_hip_rotation_degrees == RatMul(avg_hip_rotation, Int2Rat(180))
    IN  IF pose_coverage = ZeroDivisionError \/ guard_down_ratio = ZeroDivisionError
        THEN ZeroDivisionError
        ELSE [total_frames |-> total_frames,
              pose_frames |-> loc.pose_detected_frames,
              pose_coverage |-> pose_coverage,
              guard_down_ratio |-> guard_down_ratio,
              avg_left_guard_height |-> avg_left_guard,
              avg_right_guard_height |-> avg_right_guard,
              avg_hip_rotation |-> avg_hip_rotation_degrees,
              avg_stance_width |-> avg_stance_width,
              head_movement_score |-> head_movement_score]

\* ------------------------------- VideoAnalyzer.analyze_video, as one call

\* Lines 118-148: the loop from read position p on, up to the break or the
\* exception that ends it.
RECURSIVE RunLoop(_, _, _, _)
RunLoop(frames, p, loc, calls) ==
    IF p = Len(frames) \/ frames[p + 1].kind = "read_fail"
    THEN [pos |-> p, locals |-> loc, detect_calls |-> calls, exc |-> None]
    ELSE LET body == LoopBody(loc, frames[p + 1])
             calls2 == IF body.detector_called THEN Append(calls, p + 1) ELSE calls
         IN  IF body.exc # None
             THEN [pos |-> p + 1, locals |-> body.loc, detect_calls |-> calls2,
                   exc |-> body.exc]
             ELSE RunLoop(frames, p + 1, body.loc, calls2)

\* Lines 80-191: what a call of analyze_video does with a frame source: the
\* record it returns or the exception it raises, the state it leaves the
\* capture in, the frames it read and the detector calls it made.
analyze_video(source) ==
    IF ~source.openable
    THEN [result |-> None,
          exc |-> Exception("ValueError", <<"Could not open video: ", source.path>>),
          cap |-> "unopened", pos |-> 0, detect_calls |-> <<>>]
    ELSE LET run == RunLoop(source.frames, 0, InitLocals, <<>>)
             r == Aggregate(run.locals)
         IN  IF run.exc # None
             THEN [result |-> None, exc |-> run.exc, cap |-> "open",
                   pos |-> run.pos, detect_calls |-> run.detect_calls]
             ELSE IF r = ZeroDivisionError
             THEN [result |-> None, exc |-> r, cap |-> "released",
                   pos |-> run.pos, detect_calls |-> run.detect_calls]
             ELSE [result |-> r, exc |-> None, cap |-> "released",
                   pos |-> run.pos, detect_calls |-> run.detect_calls]

\* Lines 194-205.
analyze_video_file(source) == analyze_video(source)

\* ------------------------------------------------------------- variables

VARIABLES
    call,           \* the pure function called and its argument
    ret,            \* what it returned
    pure_pc,        \* "call" before the function has run, "return" after
    src,            \* analyze_video: the frame source behind video_path
    pc,             \* analyze_video: "open", "loop", "done" (returned), "raised"
    cap,            \* the cv2.VideoCapture handle: "unopened", "open", "released"
    pos,            \* the number of frames cap.read() has handed out
    locals,         \* the locals of analyze_video
    detect_calls,   \* the frame positions pose.process was called with, in call order
    result,         \* the record analyze_video returned, or None
    exc,            \* the exception analyze_video raised, or None
    rounds,         \* the Firestore collection 'rounds': document id -> document
    deleted,        \* the ids of the documents that were deleted
    clock,          \* the server time: the number of documents added so far
    request,        \* the last HTTP request handled
    response,       \* the response to it: [status, body]
    caught,         \* the exception an except clause of the handler caught, or None
    run,            \* what analyze_video_file did for the last analyze_video request
    temp_file,      \* the temporary file of the last request: "none", "deleted", "left"
    calls,          \* the calls the handler of the last request made, in call order
    users,          \* the Firestore collection 'users': document id -> document
    regs,           \* the register requests in progress: process -> [pc, username, email, response]
    now,            \* the time, in minutes
    tz,             \* the server's local time minus UTC, in minutes
    issued,         \* the tokens created so far, with the time and delta of their creation
    areq,           \* the last request to a protected route, or token check
    aresp,          \* what came of it
    mem_store,      \* the lines of the JSONL file of SimpleMemoryStore
    appended,       \* (agent_id, user_id) -> the contents appended for the pair, in order
    mem_call,       \* the last call on the memory store or on MemoryBackedLLM
    mem_ret         \* what it returned

pure_vars == <<call, ret, pure_pc>>
video_vars == <<src, pc, cap, pos, locals, detect_calls, result, exc>>
api_vars == <<rounds, deleted, clock, request, response, caught, run, temp_file, calls>>
auth_vars == <<users, regs, now, tz, issued, areq, aresp>>
mem_vars == <<mem_store, appended, mem_call, mem_ret>>
vars == <<call, ret, pure_pc, src, pc, cap, pos, locals, detect_calls, result, exc,
          rounds, deleted, clock, request, response, caught, run, temp_file, calls,
          users, regs, now, tz, issued, areq, aresp,
          mem_store, appended, mem_call, mem_ret>>

MemIdle == mem_store = <<>> /\ appended = <<>> /\ mem_call = None /\ mem_ret = None
PureIdle == call = None /\ ret = None /\ pure_pc = "idle"
VideoIdle ==
    /\ src = None /\ pc = "idle" /\ cap = "unopened" /\ pos = 0
    /\ locals = None /\ detect_calls = <<>> /\ result = None /\ exc = None
AuthIdle ==
    /\ users = <<>> /\ regs = <<>> /\ now = 0 /\ tz = 0 /\ issued = {}
    /\ areq = None /\ aresp = None
ApiIdle ==
    /\ rounds = <<>> /\ deleted = {} /\ clock = 0 /\ request = None
    /\ response = None /\ caught = None /\ run = None /\ temp_file = "none"
    /\ calls = <<>>

\* ------------------------------------------------- the pure functions

Pending == [pending |-> TRUE]

\* The rationals of [0,1] with a denominator of at most maxden.
UnitRats(maxden) == {Rat(n, d) : n \in 0..maxden, d \in 1..maxden} \cap
                    {r \in [num : 0..maxden, den : 1..maxden] : r.num <= r.den}

\* The points the tier table is specified at.
BoundaryPoints == {Rat(7, 10), Rat(6999, 10000), Rat(4, 10), Rat(3999, 10000)}

DangerInputs == UnitRats(MaxDen) \cup BoundaryPoints

ManualScores == {Rat(k, 2) : k \in 0..MaxScoreHalves}
ManualInputs ==
    [pressure_score : {Absent, Int2Rat(8)},
     ring_control_score : ManualScores \cup {Absent},
     defense_score : ManualScores \cup {Absent},
     clean_shots_taken : {Int2Rat(k) : k \in 0..MaxShots} \cup {Absent}]

VideoStatsInputs ==
    [guard_down_ratio : UnitRats(MaxRatioDen) \cup {Absent},
     pose_coverage : UnitRats(MaxRatioDen) \cup {Absent}]

PureCalls ==
    {[fn |-> "get_strategy", arg |-> d] : d \in DangerInputs}
    \cup {[fn |-> "calculate_danger", arg |-> r] : r \in ManualInputs}
    \cup {[fn |-> "video_form_and_danger", arg |-> s] : s \in VideoStatsInputs}

InitPure ==
    /\ call \in PureCalls
    /\ ret = Pending
    /\ pure_pc = "call"
    /\ VideoIdle
    /\ ApiIdle
    /\ AuthIdle
    /\ MemIdle

CallGetStrategy ==
    /\ pure_pc = "call"
    /\ call.fn = "get_strategy"
    /\ ret' = get_strategy(call.arg)
    /\ pure_pc' = "return"
    /\ UNCHANGED <<call, video_vars, api_vars, auth_vars, mem_vars>>

CallCalculateDanger ==
    /\ pure_pc = "call"
    /\ call.fn = "calculate_danger"
    /\ ret' = calculate_danger(call.arg)
    /\ pure_pc' = "return"
    /\ UNCHANGED <<call, video_vars, api_vars, auth_vars, mem_vars>>

CallVideoFormAndDanger ==
    /\ pure_pc = "call"
    /\ call.fn = "video_form_and_danger"
    /\ ret' = video_form_and_danger(call.arg)
    /\ pure_pc' = "return"
    /\ UNCHANGED <<call, video_vars, api_vars, auth_vars, mem_vars>>

NextPure == CallGetStrategy \/ CallCalculateDanger \/ CallVideoFormAndDanger

SpecPure == InitPure /\ [][NextPure]_vars

Returned(fn) == pure_pc = "return" /\ call.fn = fn

\* ------------------------------------- VideoAnalyzer.analyze_video, by step

LandmarkSets ==
    {Landmarks(40, 30, 40, 35, 45, 55, 40, 60, 20),   \* both hands up
     Landmarks(40, 55, 40, 55, 40, 65, 35, 75, 22),   \* both exactly 0.15 below
     Landmarks(40, 56, 40, 35, 45, 55, 40, 60, 20),   \* left 0.16 below
     Landmarks(40, 30, 40, 70, 45, 50, 40, 50, 30)}   \* right 0.30 below

FrameKinds ==
    {ReadFailFrame, NoPoseFrame,
     RaisingFrame("cvtColor", "cv2.error"), RaisingFrame("process", "RuntimeError")}
    \cup {PoseFrame(l) : l \in LandmarkSets}

FrameSeqs(maxlen) == UNION {[1..n -> FrameKinds] : n \in 0..maxlen}

VideoPath == "/tmp/upload.mp4"

VideoSources(maxlen) ==
    {[openable |-> FALSE, path |-> VideoPath, frames |-> <<>>]}
    \cup {[openable |-> TRUE, path |-> VideoPath, frames |-> f] : f \in FrameSeqs(maxlen)}

InitVideo ==
    /\ src \in VideoSources(MaxFrames)
    /\ pc = "open"
    /\ cap = "unopened"
    /\ pos = 0
    /\ locals = None
    /\ detect_calls = <<>>
    /\ result = None
    /\ exc = None
    /\ PureIdle
    /\ ApiIdle
    /\ AuthIdle
    /\ MemIdle

\* Lines 99-101: the capture cannot be opened.
OpenFails ==
    /\ pc = "open"
    /\ ~src.openable
    /\ pc' = "raised"
    /\ exc' = Exception("ValueError", <<"Could not open video: ", src.path>>)
    /\ UNCHANGED <<src, cap, pos, locals, detect_calls, result, pure_vars, api_vars, auth_vars, mem_vars>>

\* Lines 99-113: the capture opens and the locals are set.
Open ==
    /\ pc = "open"
    /\ src.openable
    /\ cap' = "open"
    /\ locals' = InitLocals
    /\ pc' = "loop"
    /\ UNCHANGED <<src, pos, detect_calls, result, exc, pure_vars, api_vars, auth_vars, mem_vars>>

\* Lines 148-191 after the loop is left: the capture is released, the metrics
\* are aggregated and returned.
Finish ==
    /\ cap' = "released"
    /\ LET r == Aggregate(locals)
       IN  IF r = ZeroDivisionError
           THEN pc' = "raised" /\ exc' = r /\ result' = None
           ELSE pc' = "done" /\ result' = r /\ exc' = None

\* Lines 119-121 at the end of the stream: ret is False.
EndOfStream ==
    /\ pc = "loop"
    /\ pos = Len(src.frames)
    /\ Finish
    /\ UNCHANGED <<src, pos, locals, detect_calls, pure_vars, api_vars, auth_vars, mem_vars>>

\* Lines 119-121 at a frame that cannot be decoded: ret is False as well, and
\* the loop is left in the same way.
FailedRead ==
    /\ pc = "loop"
    /\ pos < Len(src.frames)
    /\ src.frames[pos + 1].kind = "read_fail"
    /\ Finish
    /\ UNCHANGED <<src, pos, locals, detect_calls, pure_vars, api_vars, auth_vars, mem_vars>>

\* Lines 119-146: one iteration for a frame that is read.
Iterate ==
    /\ pc = "loop"
    /\ pos < Len(src.frames)
    /\ src.frames[pos + 1].kind # "read_fail"
    /\ LET body == LoopBody(locals, src.frames[pos + 1])
       IN  /\ pos' = pos + 1
           /\ locals' = body.loc
           /\ detect_calls' = IF body.detector_called
                              THEN Append(detect_calls, pos + 1) ELSE detect_calls
           /\ exc' = body.exc
           /\ pc' = IF body.exc = None THEN "loop" ELSE "raised"
    /\ UNCHANGED <<src, cap, result, pure_vars, api_vars, auth_vars, mem_vars>>

NextVideo == OpenFails \/ Open \/ EndOfStream \/ FailedRead \/ Iterate

SpecVideo == InitVideo /\ [][NextVideo]_vars

\* ------------------------------------------------- the Flask handlers

\* The module-level state the handlers test first is taken as set up: the
\* Firestore client was created (_rounds_collection is not None, lines 60-70)
\* and the video modules were imported (VIDEO_ANALYSIS_AVAILABLE, lines 29-35).

\* A JSON string value.
Str(text) == [str |-> text]
IsNumber(v) == "num" \in DOMAIN v

Alice == [id |-> "id-alice", username |-> "alice"]
Bob == [id |-> "id-bob", username |-> "bob"]
AuthUsers == {Alice, Bob}

\* Lines 172-195: the user of the request's bearer token, or None.
get_current_user(req) == req.user

Response(status, body) == [status |-> status, body |-> body]
ErrorBody(message) == [status |-> "error", message |-> message]

\* Lines 203-207.
AuthenticationRequired == Response(401, ErrorBody(<<"Authentication required">>))

\* ", ".join(names)
RECURSIVE Join(_)
Join(names) ==
    IF Len(names) <= 1 THEN names
    ELSE <<Head(names), ", ">> \o Join(Tail(names))

\* A plausible slip: one of the four fields is left out of the list.
RequiredFields_short ==
    <<"pressure_score", "ring_control_score", "clean_shots_taken">>

\* Line 478.
RequiredFields ==
    <<"pressure_score", "ring_control_score", "defense_score", "clean_shots_taken">>

IsException(v) == "type" \in DOMAIN v /\ "text" \in DOMAIN v

\* payload[key]: the value, or KeyError for a key the payload does not hold.
Item(payload, key) ==
    IF key \in DOMAIN payload THEN payload[key] ELSE Exception("KeyError", <<key>>)

\* float(v) of a JSON value: the number itself, or ValueError for a string
\* that is no number; an exception raised while evaluating v goes through.
ToFloat(v) ==
    IF IsException(v) THEN v
    ELSE IF IsNumber(v) THEN v
    ELSE Exception("ValueError", <<"could not convert string to float: ", v.str>>)

\* int(v) of a JSON value: truncation towards zero, or ValueError for a
\* string that is no number.
ToInt(v) ==
    IF IsException(v) THEN v
    ELSE IF ~IsNumber(v)
    THEN Exception("ValueError", <<"invalid literal for int() with base 10: ", v.str>>)
    ELSE IF v.num >= 0 THEN Int2Rat(v.num \div v.den)
    ELSE Int2Rat(-((-v.num) \div v.den))

\* The first exception among the values of a sequence, or None: the
\* exception that ends the evaluation of a dict display.
RECURSIVE FirstException(_)
FirstException(values) ==
    IF values = <<>> THEN None
    ELSE IF IsException(Head(values)) THEN Head(values)
    ELSE FirstException(Tail(values))

\* Line 488: calculate_danger on the payload; arithmetic on a string raises
\* TypeError.
CalculateDangerOf(payload) ==
    IF \E f \in {"clean_shots_taken", "defense_score", "ring_control_score"} :
           Has(payload, f) /\ ~IsNumber(payload[f])
    THEN Exception("TypeError", <<"unsupported operand type(s): 'str'">>)
    ELSE calculate_danger(payload)

\* What a failing Firestore call raises.
FirestoreError == Exception("ServiceUnavailable", <<"503 firestore backend unavailable">>)

\* A plausible slip: the ValueError clause is missing, so every exception
\* takes the generic path.
analyze_video_except_generic(e) ==
    Response(500, ErrorBody(<<"Internal server error: ">> \o e.text))

\* Lines 657-667.
analyze_video_except(e) ==
    IF e.type = "ValueError"
    THEN Response(400, ErrorBody(<<"Video analysis error: ">> \o e.text))
    ELSE Response(500, ErrorBody(<<"Internal server error: ">> \o e.text))

\* Lines 519-529.
log_round_except(e) ==
    IF e.type = "ValueError"
    THEN Response(400, ErrorBody(<<"Invalid data type: ">> \o e.text))
    ELSE Response(500, ErrorBody(<<"Internal server error: ">> \o e.text))

\* Lines 778-783, 830-835 and 877-882.
dashboard_stats_except(e) == Response(500, ErrorBody(<<"Internal server error: ">> \o e.text))
rounds_history_except(e) == Response(500, ErrorBody(<<"Internal server error: ">> \o e.text))
delete_round_except(e) == Response(500, ErrorBody(<<"Internal server error: ">> \o e.text))

\* Lines 898-904: Flask's handler for an exception no route caught.
internal_error == Response(500, ErrorBody(<<"Internal server error">>))

\* The ids no document was ever given.
FreeIds == (1..MaxRounds) \ (DOMAIN rounds \cup deleted)

\* A Firestore timestamp.
Timestamp(t) == [ts |-> t]

\* A plausible slip: the round is written under a key derived from the user,
\* _rounds_collection.document(key).set(doc), so that a user's next round
\* replaces the one stored before.
Added_inplace(id, doc) ==
    LET mine == {i \in DOMAIN rounds : rounds[i].user_id = doc.user_id}
        key == IF mine = {} THEN id ELSE CHOOSE i \in mine : TRUE
    IN  [i \in DOMAIN rounds \cup {key} |->
            IF i = key THEN [date |-> Timestamp(clock + 1)] @@ doc ELSE rounds[i]]

\* _rounds_collection.add(doc) under the auto-id id; firestore.SERVER_TIMESTAMP
\* becomes the server time.
Added(id, doc) ==
    [i \in DOMAIN rounds \cup {id} |->
        IF i = id THEN [date |-> Timestamp(clock + 1)] @@ doc ELSE rounds[i]]

\* The handler answers without touching the store.
Reply(req, resp, e, analysis, temp, made) ==
    /\ request' = req
    /\ response' = resp
    /\ caught' = e
    /\ run' = analysis
    /\ temp_file' = temp
    /\ calls' = made
    /\ UNCHANGED <<rounds, deleted, clock, pure_vars, video_vars, auth_vars, mem_vars>>

\* The handler adds doc under id and answers.
Store(req, id, doc, resp, analysis, temp, made) ==
    /\ request' = req
    /\ rounds' = Added(id, doc)
    /\ clock' = clock + 1
    /\ response' = resp
    /\ caught' = None
    /\ run' = analysis
    /\ temp_file' = temp
    /\ calls' = made
    /\ UNCHANGED <<deleted, pure_vars, video_vars, auth_vars, mem_vars>>

\* The payloads of log_round requests.
Payload(p, r, d, c) ==
    [pressure_score |-> p, ring_control_score |-> r, defense_score |-> d,
     clean_shots_taken |-> c, notes |-> "sparring"]
ModeratePayload == Payload(Int2Rat(5), Int2Rat(6), Int2Rat(6), Int2Rat(3))  \* danger 0.5
ValidPayloads ==
    {Payload(Int2Rat(8), Int2Rat(9), Int2Rat(9), Int2Rat(0)),    \* danger 0.05
     ModeratePayload,
     Payload(Int2Rat(5), Int2Rat(3), Int2Rat(2), Int2Rat(5))}    \* danger 0.88
BadPayloads ==
    {None,
     [pressure_score |-> Int2Rat(8), ring_control_score |-> Int2Rat(9),
      clean_shots_taken |-> Int2Rat(0)],
     [notes |-> "no scores"],
     Payload(Int2Rat(8), Int2Rat(9), Int2Rat(9), Str("many")),
     Payload(Str("abc"), Int2Rat(9), Int2Rat(9), Int2Rat(0))}

LogRoundRequest(u, p, f) == [op |-> "log_round", user |-> u, payload |-> p, fault |-> f]
LogRoundRequests ==
    {LogRoundRequest(Alice, p, FALSE) : p \in ValidPayloads \cup BadPayloads}
    \cup {LogRoundRequest(Bob, ModeratePayload, FALSE),
          LogRoundRequest(Alice, ModeratePayload, TRUE),
          LogRoundRequest(None, ModeratePayload, FALSE)}

\* Lines 457-529.
LogRound ==
    \E req \in LogRoundRequests, id \in FreeIds :
        LET user == get_current_user(req)
            payload == req.payload
            missing_fields ==
                SelectSeq(RequiredFields, LAMBDA field : field \notin DOMAIN payload)
            danger_score == CalculateDangerOf(payload)
            strategy == get_strategy(danger_score)
            pressure == ToFloat(Item(payload, "pressure_score"))
            ring_control == ToFloat(Item(payload, "ring_control_score"))
            defense == ToFloat(Item(payload, "defense_score"))
            clean_shots == ToInt(Item(payload, "clean_shots_taken"))
            raised == FirstException(<<pressure, ring_control, defense, clean_shots>>)
            round_doc ==
                [user_id |-> user.id, username |-> user.username,
                 pressure_score |-> pressure,
                 ring_control_score |-> ring_control,
                 defense_score |-> defense,
                 clean_shots_taken |-> clean_shots,
                 notes |-> IF "notes" \in DOMAIN payload THEN payload.notes ELSE "",
                 danger_score |-> danger_score,
                 strategy_title |-> strategy[1], strategy_text |-> strategy[2]]
        IN  IF user = None
            THEN Reply(req, AuthenticationRequired, None, None, "none", <<>>)
            ELSE IF payload = None
            THEN Reply(req, Response(400, ErrorBody(<<"Invalid or missing JSON payload">>)),
                       None, None, "none", <<>>)
            ELSE IF missing_fields # <<>>
            THEN Reply(req, Response(400, ErrorBody(<<"Missing required fields: ">>
                                                     \o Join(missing_fields))),
                       None, None, "none", <<>>)
            ELSE IF IsException(danger_score)
            THEN Reply(req, log_round_except(danger_score), danger_score, None, "none",
                       <<"calculate_danger">>)
            ELSE IF raised # None
            THEN Reply(req, log_round_except(raised), raised, None, "none",
                       <<"calculate_danger", "get_strategy">>)
            ELSE IF req.fault
            THEN Reply(req, log_round_except(FirestoreError), FirestoreError, None, "none",
                       <<"calculate_danger", "get_strategy", "rounds.add">>)
            ELSE Store(req, id, round_doc,
                       Response(200, [status |-> "success", id |-> id,
                                      danger_score |-> danger_score,
                                      strategy |-> [title |-> strategy[1],
                                                    text |-> strategy[2]]]),
                       None, "none",
                       <<"calculate_danger", "get_strategy", "rounds.add">>)

\* The uploads of analyze_video requests: the frame sources behind the
\* temporary file.
Upload(frames) == [openable |-> TRUE, path |-> VideoPath, frames |-> frames]
HandsUp == Landmarks(40, 30, 40, 35, 45, 55, 40, 60, 20)
LeftDown == Landmarks(40, 56, 40, 35, 45, 55, 40, 60, 20)
NoPoseUpload == Upload(<<NoPoseFrame, NoPoseFrame>>)                      \* danger 0.4
GoodUploads ==
    {NoPoseUpload,
     Upload(<<PoseFrame(HandsUp), NoPoseFrame>>),                           \* danger 0.2
     Upload(<<PoseFrame(LeftDown), NoPoseFrame, NoPoseFrame, NoPoseFrame>>), \* danger 0.9
     Upload(<<NoPoseFrame, ReadFailFrame, PoseFrame(LeftDown)>>)}
BadUploads ==
    {[openable |-> FALSE, path |-> VideoPath, frames |-> <<>>],
     Upload(<<RaisingFrame("cvtColor", "cv2.error")>>),
     Upload(<<PoseFrame(HandsUp), RaisingFrame("process", "RuntimeError")>>)}

VideoRequest(u, has_file, filename, source, save_fails, fault) ==
    [op |-> "analyze_video", user |-> u, has_file |-> has_file, filename |-> filename,
     source |-> source, save_fails |-> save_fails, fault |-> fault,
     round_name |-> "video_round", notes |-> ""]

AnalyzeVideoRequests ==
    {VideoRequest(Alice, TRUE, "round.mp4", v, FALSE, FALSE) :
        v \in GoodUploads \cup BadUploads}
    \cup {VideoRequest(Bob, TRUE, "round.mp4", NoPoseUpload, FALSE, FALSE),
          VideoRequest(Alice, TRUE, "round.mp4", NoPoseUpload, FALSE, TRUE),
          VideoRequest(Alice, TRUE, "round.mp4", NoPoseUpload, TRUE, FALSE),
          VideoRequest(Alice, FALSE, "", None, FALSE, FALSE),
          VideoRequest(Alice, TRUE, "", None, FALSE, FALSE),
          VideoRequest(None, TRUE, "round.mp4", NoPoseUpload, FALSE, FALSE)}

\* What video_file.save raises when the upload cannot be written.
SaveError == Exception("OSError", <<"[Errno 28] No space left on device">>)

\* round(x, ndigits) for scale = 10^ndigits: to the nearest 1/scale, a tie to
\* the even neighbour.
RoundTo(q, scale) ==
    LET n == q.num * scale
        lo == n \div q.den
        twice_rem == 2 * (n % q.den)
    IN  IF twice_rem < q.den THEN Rat(lo, scale)
        ELSE IF twice_rem > q.den THEN Rat(lo + 1, scale)
        ELSE IF lo % 2 = 0 THEN Rat(lo, scale) ELSE Rat(lo + 1, scale)
Round1(q) == RoundTo(q, 10)
Round2(q) == RoundTo(q, 100)
Round3(q) == RoundTo(q, 1000)

\* Lines 591-619: the document of a video round.
VideoMetricKeys ==
    {"total_frames", "pose_frames", "pose_coverage", "guard_down_ratio",
     "avg_left_guard_height", "avg_right_guard_height", "avg_hip_rotation",
     "avg_stance_width", "head_movement_score"}
VideoRoundDoc(req, user, enriched_metrics, strategy) ==
    [user_id |-> user.id, username |-> user.username,
     round_name |-> req.round_name, video_filename |-> req.filename,
     notes |-> req.notes,
     danger_score |-> enriched_metrics.video_danger_score,
     form_score |-> enriched_metrics.video_form_score,
     focus_next_round |-> enriched_metrics.video_focus_next_round,
     strategy_title |-> strategy[1], strategy_text |-> strategy[2],
     analysis_type |-> "video"]
    @@ [k \in VideoMetricKeys |-> enriched_metrics[k]]

\* Lines 627-650: the answer to a stored video round, without the coaching
\* text of generate_video_coaching.
VideoRoundResponse(id, m, strategy) ==
    Response(200,
        [status |-> "success", id |-> id,
         metrics |->
            [total_frames |-> m.total_frames,
             pose_coverage |-> Round1(RatMul(m.pose_coverage, Int2Rat(100))),
             guard_down_ratio |-> Round1(RatMul(m.guard_down_ratio, Int2Rat(100))),
             avg_left_guard_height |-> Round3(m.avg_left_guard_height),
             avg_right_guard_height |-> Round3(m.avg_right_guard_height),
             avg_hip_rotation |-> Round1(m.avg_hip_rotation),
             avg_stance_width |-> Round3(m.avg_stance_width),
             head_movement_score |-> Round3(m.head_movement_score)],
         scores |-> [danger_score |-> Round2(m.video_danger_score),
                     form_score |-> Round1(m.video_form_score),
                     focus_next_round |-> m.video_focus_next_round],
         strategy |-> [title |-> strategy[1], text |-> strategy[2]]])

\* Lines 588-650: the strategy is looked up, the round stored and answered.
AnalyzeVideoStore(req, id, user, analysis, enriched_metrics, strategy) ==
    Store(req, id, VideoRoundDoc(req, user, enriched_metrics, strategy),
          VideoRoundResponse(id, enriched_metrics, strategy), analysis, "deleted",
          <<"analyze_video_file", "video_form_and_danger", "get_strategy", "rounds.add",
            "generate_video_coaching">>)

\* Lines 575-667: the inner try block, its finally clause and the except
\* clauses, given what analyze_video_file did.
AnalyzeVideoTry(req, id, user, analysis) ==
    IF analysis.exc # None
    THEN Reply(req, analyze_video_except(analysis.exc), analysis.exc, analysis, "deleted",
               <<"analyze_video_file">>)
    ELSE IF req.fault
    THEN Reply(req, analyze_video_except(FirestoreError), FirestoreError,
               analysis, "deleted",
               <<"analyze_video_file", "video_form_and_danger", "get_strategy",
                 "rounds.add">>)
    ELSE LET enriched_metrics == video_form_and_danger(analysis.result)
         IN  AnalyzeVideoStore(req, id, user, analysis, enriched_metrics,
                               get_strategy(enriched_metrics.video_danger_score))

\* Lines 532-667.
AnalyzeVideo ==
    \E req \in AnalyzeVideoRequests, id \in FreeIds :
        LET user == get_current_user(req)
        IN  IF user = None
            THEN Reply(req, AuthenticationRequired, None, None, "none", <<>>)
            ELSE IF ~req.has_file
            THEN Reply(req, Response(400, ErrorBody(<<"No video file provided">>)),
                       None, None, "none", <<>>)
            ELSE IF req.filename = ""
            THEN Reply(req, Response(400, ErrorBody(<<"Empty filename">>)),
                       None, None, "none", <<>>)
            ELSE IF req.save_fails
            \* The exception leaves the with block before the inner try: the
            \* finally clause that unlinks the file is never entered.
            THEN Reply(req, analyze_video_except(SaveError), SaveError, None, "left", <<>>)
            ELSE AnalyzeVideoTry(req, id, user, analyze_video_file(req.source))

\* The ids of set S in ascending order: the order a Firestore query without
\* an order_by streams documents in.
RECURSIVE Ascending(_)
Ascending(S) ==
    IF S = {} THEN <<>>
    ELSE LET m == CHOOSE x \in S : \A y \in S : x <= y
         IN  <<m>> \o Ascending(S \ {m})

\* _rounds_collection.where('user_id', '==', uid).stream() on the collection
\* store.
UserDocIds(store, uid) == Ascending({i \in DOMAIN store : store[i].user_id = uid})

\* Lines 244-254: the ISO string of a timestamp; later timestamps give
\* greater strings.
_to_iso(ts) == IF ts = None THEN None ELSE [iso |-> ts.ts]

\* Lines 742-746: the total of one key over the documents ids names.
RECURSIVE Total(_, _, _)
Total(store, ids, key) ==
    IF ids = <<>> THEN Zero
    ELSE RatAdd(Get(store[Head(ids)], key, Zero), Total(store, Tail(ids), key))

\* Lines 735-753: the id of the most recent document, scanning ids in order;
\* best is the id found so far, or 0.
RECURSIVE MostRecent(_, _, _)
MostRecent(store, ids, best) ==
    IF ids = <<>> THEN best
    ELSE LET d == Head(ids)
         IN  IF best = 0 \/ store[d].date.ts > store[best].date.ts
             THEN MostRecent(store, Tail(ids), d)
             ELSE MostRecent(store, Tail(ids), best)

DashboardRequests ==
    {[op |-> "dashboard_stats", user |-> u, fault |-> f] :
        u \in AuthUsers \cup {None}, f \in BOOLEAN}

TotalKeys == {"pressure_score", "ring_control_score", "defense_score", "clean_shots_taken"}

\* A plausible slip: the where clause is forgotten, so the statistics run
\* over every user's rounds.
DashboardDocs_everyone(store, user) == Ascending(DOMAIN store)

\* Line 725: the documents the statistics run over.
DashboardDocs(store, user) == UserDocIds(store, user.id)

\* A plausible slip: the rounds are counted over the whole collection.
DashboardResponse_countall(store, user) ==
    LET docs == DashboardDocs(store, user)
        count == Cardinality(DOMAIN store)
        averages ==
            [k \in TotalKeys |->
                IF count = 0 THEN Zero
                ELSE Round2(RatDiv(Total(store, docs, k), Int2Rat(count)))]
        recent == MostRecent(store, docs, 0)
        strategy == get_strategy(calculate_danger(store[recent]))
        next_game_plan ==
            IF recent = 0 THEN [title |-> None, text |-> None]
            ELSE [title |-> strategy[1], text |-> strategy[2]]
        most_recent_date == IF recent = 0 THEN None ELSE store[recent].date
    IN  Response(200, [averages |-> averages,
                       most_recent_round_date |-> _to_iso(most_recent_date),
                       next_game_plan |-> next_game_plan,
                       total_rounds |-> count])

\* Lines 725-776: the answer of get_dashboard_stats for user on the
\* collection store.
DashboardResponse(store, user) ==
    LET docs == DashboardDocs(store, user)
        count == Len(docs)
        averages ==
            [k \in TotalKeys |->
                IF count = 0 THEN Zero
                ELSE Round2(RatDiv(Total(store, docs, k), Int2Rat(count)))]
        recent == MostRecent(store, docs, 0)
        strategy == get_strategy(calculate_danger(store[recent]))
        next_game_plan ==
            IF recent = 0 THEN [title |-> None, text |-> None]
            ELSE [title |-> strategy[1], text |-> strategy[2]]
        most_recent_date == IF recent = 0 THEN None ELSE store[recent].date
    IN  Response(200, [averages |-> averages,
                       most_recent_round_date |-> _to_iso(most_recent_date),
                       next_game_plan |-> next_game_plan,
                       total_rounds |-> count])

\* Lines 711-783.
DashboardStats ==
    \E req \in DashboardRequests :
        LET user == get_current_user(req)
        IN  IF user = None
            THEN Reply(req, AuthenticationRequired, None, None, "none", <<>>)
            ELSE IF req.fault
            THEN Reply(req, dashboard_stats_except(FirestoreError), FirestoreError,
                       None, "none", <<"rounds.stream">>)
            ELSE Reply(req, DashboardResponse(rounds, user), None, None, "none",
                       IF DashboardDocs(rounds, user) = <<>> THEN <<"rounds.stream">>
                       ELSE <<"rounds.stream", "calculate_danger", "get_strategy">>)

\* The first n elements of a sequence: query.limit(n).
Take(seq, n) == SubSeq(seq, 1, IF n < Len(seq) THEN n ELSE Len(seq))

\* A plausible slip: the sort is forgotten and the documents stay in the
\* order the query streamed them in.
SortByDateDesc_unsorted(docs) == docs

\* Line 823: a sort by the ISO date, greatest first.
RECURSIVE SortByDateDesc(_)
SortByDateDesc(docs) ==
    IF docs = <<>> THEN <<>>
    ELSE LET i == CHOOSE i \in 1..Len(docs) :
                     /\ \A j \in 1..Len(docs) : docs[j].date.iso <= docs[i].date.iso
                     /\ \A j \in 1..(i - 1) : docs[j].date.iso < docs[i].date.iso
             rest == [j \in 1..(Len(docs) - 1) |-> IF j < i THEN docs[j] ELSE docs[j + 1]]
         IN  <<docs[i]>> \o SortByDateDesc(rest)

HistoryRequest(u, l, f) == [op |-> "rounds_history", user |-> u, limit |-> l, fault |-> f]
HistoryRequests ==
    {HistoryRequest(u, l, FALSE) :
        u \in AuthUsers, l \in {Absent, Int2Rat(1), Int2Rat(2000)}}
    \cup {HistoryRequest(Alice, Absent, TRUE), HistoryRequest(None, Absent, FALSE)}

\* Lines 799-828: the answer of get_rounds_history for user on the
\* collection store; limit_arg is the 'limit' query parameter, or Absent.
HistoryResponse(store, user, limit_arg) ==
    LET limit0 == IF limit_arg = Absent THEN 100 ELSE limit_arg.num
        limit == IF limit0 < 1000 THEN limit0 ELSE 1000
        docs == Take(UserDocIds(store, user.id), limit)
        listed == [n \in 1..Len(docs) |->
                      [id |-> docs[n], date |-> _to_iso(store[docs[n]].date)]
                      @@ store[docs[n]]]
        sorted == SortByDateDesc(listed)
    IN  Response(200, [rounds |-> sorted, total |-> Len(sorted)])

\* Lines 786-835.
RoundsHistory ==
    \E req \in HistoryRequests :
        LET user == get_current_user(req)
        IN  IF user = None
            THEN Reply(req, AuthenticationRequired, None, None, "none", <<>>)
            ELSE IF req.fault
            THEN Reply(req, rounds_history_except(FirestoreError), FirestoreError,
                       None, "none", <<"rounds.stream">>)
            ELSE Reply(req, HistoryResponse(rounds, user, req.limit), None, None, "none",
                       <<"rounds.stream">>)

DeleteRequest(u, i, f) == [op |-> "delete_round", user |-> u, round_id |-> i, fault |-> f]
DeleteRequests ==
    {DeleteRequest(u, i, FALSE) : u \in AuthUsers, i \in 1..MaxRounds}
    \cup {DeleteRequest(Alice, 1, TRUE), DeleteRequest(None, 1, FALSE)}

\* A plausible slip: the ownership check is forgotten.
OwnedBy_anyone(round_data, user) == TRUE

\* Line 863: the round belongs to the current user.
OwnedBy(round_data, user) ==
    "user_id" \in DOMAIN round_data /\ round_data.user_id = user.id

\* Lines 838-882.
DeleteRound ==
    \E req \in DeleteRequests :
        LET user == get_current_user(req)
        IN  IF user = None
            THEN Reply(req, AuthenticationRequired, None, None, "none", <<>>)
            ELSE IF req.fault
            THEN Reply(req, delete_round_except(FirestoreError), FirestoreError,
                       None, "none", <<"rounds.get">>)
            ELSE IF req.round_id \notin DOMAIN rounds
            THEN Reply(req, Response(404, ErrorBody(<<"Round not found">>)),
                       None, None, "none", <<"rounds.get">>)
            ELSE IF ~OwnedBy(rounds[req.round_id], user)
            THEN Reply(req, Response(403, ErrorBody(<<"Not authorized to delete this round">>)),
                       None, None, "none", <<"rounds.get">>)
            ELSE /\ request' = req
                 /\ rounds' = [i \in DOMAIN rounds \ {req.round_id} |-> rounds[i]]
                 /\ deleted' = deleted \cup {req.round_id}
                 /\ response' = Response(200, [status |-> "success",
                                               message |-> <<"Round deleted">>])
                 /\ caught' = None
                 /\ run' = None
                 /\ temp_file' = "none"
                 /\ calls' = <<"rounds.get", "rounds.delete">>
                 /\ UNCHANGED <<clock, pure_vars, video_vars, auth_vars, mem_vars>>

InitApi == ApiIdle /\ PureIdle /\ VideoIdle /\ AuthIdle /\ MemIdle

NextApi == LogRound \/ AnalyzeVideo \/ DashboardStats \/ RoundsHistory \/ DeleteRound

SpecApi == InitApi /\ [][NextApi]_vars

\* The step-by-step run and the one-call form of analyze_video end alike.
StepwiseAgreesWithCall ==
    (pc \in {"done", "raised"}) =>
        analyze_video(src) = [result |-> result, exc |-> exc, cap |-> cap,
                              pos |-> pos, detect_calls |-> detect_calls]

\* ------------------------------------------------- registration, by step

\* The register requests handled at once (gunicorn workers and threads, or
\* Cloud Run instances, all on the one 'users' collection).
MaxRegs == 3

Usernames == {"alice", "bob"}
Emails == {"a@jkd.test", "b@jkd.test"}

\* The JSON payloads of POST /auth/register: complete ones, one with a
\* password of seven characters and one without an email.
RegisterPayloads ==
    {[username |-> u, email |-> e, password |-> "12345678"] :
        u \in Usernames, e \in Emails}
    \cup {[username |-> "alice", email |-> "a@jkd.test", password |-> "1234567"],
          [username |-> "alice", password |-> "12345678"]}

RegIdle == [pc |-> "idle", data |-> None, response |-> None]

\* str(uuid.uuid4()): a value no other registration draws.
uuid4(p) == "uuid-" \o ToString(p)

\* _users_collection.where(field, '==', value).limit(1).get(), as a list.
UsersWhere(field, value) ==
    {id \in DOMAIN users : users[id][field] = value}

\* register's answer to a payload it rejects before create_user, or None.
RegisterValidate(data) ==
    LET missing_fields == {"username", "email", "password"} \ DOMAIN data IN
    IF missing_fields # {}
        THEN [status |-> 400, message |-> "Missing required fields"]
    ELSE IF Len(data.password) < 8
        THEN [status |-> 400, message |-> "Password must be at least 8 characters"]
    ELSE None

RegAnswer(p, resp) ==
    regs' = [regs EXCEPT ![p] = [@ EXCEPT !.pc = "done", !.response = resp]]

RegGoto(p, label) ==
    regs' = [regs EXCEPT ![p] = [@ EXCEPT !.pc = label]]

RegUnchanged ==
    UNCHANGED <<now, tz, issued, areq, aresp, pure_vars, video_vars, api_vars, mem_vars>>

\* create_user's username check finds a user: ValueError, answered 400.
UsernameTaken(username) == UsersWhere("username", username) # {}

\* create_user's email check finds a user: ValueError, answered 400.
EmailTaken(email) == UsersWhere("email", email) # {}

\* register up to create_user's first query: validation, then the username check.
RegisterCheckUsername(p) ==
    \E data \in RegisterPayloads :
        /\ regs[p].pc = "idle"
        /\ LET invalid == RegisterValidate(data) IN
           IF invalid # None
               THEN regs' = [regs EXCEPT ![p] =
                        [pc |-> "done", data |-> data, response |-> invalid]]
           ELSE IF UsernameTaken(data.username)
               THEN regs' = [regs EXCEPT ![p] =
                        [pc |-> "done", data |-> data,
                         response |-> [status |-> 400,
                             message |-> "Username '" \o data.username
                                             \o "' already exists"]]]
           ELSE regs' = [regs EXCEPT ![p] =
                        [pc |-> "check_email", data |-> data, response |-> None]]
        /\ UNCHANGED users
        /\ RegUnchanged

\* create_user's second query: the email check.
RegisterCheckEmail(p) ==
    /\ regs[p].pc = "check_email"
    /\ IF EmailTaken(regs[p].data.email)
           THEN RegAnswer(p, [status |-> 400,
                    message |-> "Email '" \o regs[p].data.email
                                    \o "' already exists"])
           ELSE RegGoto(p, "set")
    /\ UNCHANGED users
    /\ RegUnchanged

\* create_user's write, and register's 201.
RegisterSet(p) ==
    /\ regs[p].pc = "set"
    /\ LET user_id == uuid4(p)
           user_doc == [id |-> user_id,
                        username |-> regs[p].data.username,
                        email |-> regs[p].data.email,
                        is_active |-> TRUE]
       IN /\ users' = (user_id :> user_doc) @@ users
          /\ RegAnswer(p, [status |-> 201, message |-> user_id])
    /\ RegUnchanged

InitRegister ==
    /\ users = <<>>
    /\ regs = [p \in 1..MaxRegs |-> RegIdle]
    /\ now = 0 /\ tz = 0 /\ issued = {} /\ areq = None /\ aresp = None
    /\ PureIdle /\ VideoIdle /\ ApiIdle /\ MemIdle

NextRegister ==
    \E p \in 1..MaxRegs :
        RegisterCheckUsername(p) \/ RegisterCheckEmail(p) \/ RegisterSet(p)

SpecRegister == InitRegister /\ [][NextRegister]_vars

\* ------------------------------------------------- tokens and protected routes

\* Time is counted in ticks; a second has TicksPerSecond of them.
TicksPerSecond == 2
\* The last tick of the clock.
MaxTime == 2
\* The tokens created.
MaxTokens == 1

ACCESS_TOKEN_EXPIRE_MINUTES == 30
SECRET_KEY == "your-secret-key-change-this-in-production"

\* timedelta(seconds = s), in ticks.
Seconds(s) == s * TicksPerSecond
\* timedelta(minutes = m), in ticks.
Minutes(m) == Seconds(60 * m)

\* The server's local time minus UTC, in seconds: UTC, and an hour west of it.
TimeZones == {0 - 3600, 0}

\* The users collection of the token model: two registered users.
UserDoc(user, active) ==
    [id |-> user.id, username |-> user.username,
     email |-> user.username \o "@jkd.test", is_active |-> active]
StoredUsers == (Alice.id :> UserDoc(Alice, TRUE)) @@ (Bob.id :> UserDoc(Bob, TRUE))

\* The claims create_access_token is given: those of login for Alice and Bob,
\* those of a user no longer stored, and claims without a subject.
TokenDatas ==
    {[sub |-> Alice.id, username |-> Alice.username],
     [sub |-> Bob.id, username |-> Bob.username],
     [sub |-> "id-ghost", username |-> "ghost"],
     [username |-> Alice.username]}

\* The expires_delta arguments, in seconds; None is the default.
ExpiresDeltas == {None, [seconds |-> 0 - 1], [seconds |-> 0], [seconds |-> 1]}

\* bool(expires_delta): None and timedelta(0) are false.
Truthy(expires_delta) == expires_delta # None /\ expires_delta.seconds # 0

\* jwt.encode(to_encode, key): a datetime 'exp' becomes whole seconds since
\* the epoch.
jwt_encode(to_encode, expire, key) ==
    [payload |-> to_encode @@ [exp |-> expire \div TicksPerSecond], sig |-> key]

create_access_token(data, expires_delta, utcnow) ==
    LET expire == IF Truthy(expires_delta)
                      THEN utcnow + Seconds(expires_delta.seconds)
                      ELSE utcnow + Minutes(ACCESS_TOKEN_EXPIRE_MINUTES)
    IN jwt_encode(data, expire, SECRET_KEY)

\* A string that is no JWT, and an issued token signed again with another key.
GarbageToken == [payload |-> None, sig |-> "none"]
Forged(token) == [token EXCEPT !.sig = "another-key"]

\* jwt.decode(token, key, algorithms): the payload, or InvalidTokenError.
InvalidTokenError == [type |-> "InvalidTokenError"]
jwt_decode(token, key, t) ==
    IF token.sig # key THEN InvalidTokenError
    ELSE IF "exp" \in DOMAIN token.payload
            /\ Seconds(token.payload.exp) <= t THEN InvalidTokenError
    ELSE token.payload

\* decode_token of app.py: the payload or None.
decode_token(token, t) ==
    LET payload == jwt_decode(token, SECRET_KEY, t) IN
    IF payload = InvalidTokenError THEN None ELSE payload

\* decode_token of jwt_handler.py: a TokenData or None; exp is read as a
\* local time.
decode_token_fastapi(token, t, zone) ==
    LET payload == jwt_decode(token, SECRET_KEY, t) IN
    IF payload = InvalidTokenError THEN None
    ELSE IF "sub" \notin DOMAIN payload \/ "username" \notin DOMAIN payload THEN None
    ELSE IF "exp" \notin DOMAIN payload THEN None
    ELSE [user_id |-> payload.sub, username |-> payload.username,
          exp |-> Seconds(payload.exp + zone)]

verify_token(token, t, zone) ==
    LET token_data == decode_token_fastapi(token, t, zone) IN
    IF token_data = None THEN FALSE
    ELSE IF token_data.exp < t THEN FALSE
    ELSE TRUE

\* str.lower() of the schemes sent.
Lower(s) == IF s \in {"Bearer", "BEARER"} THEN "bearer" ELSE s

\* get_user_by_id: the document or None.
get_user_by_id(store, user_id) ==
    IF user_id \in DOMAIN store THEN store[user_id] ELSE None

\* user.get('is_active', False)
IsActive_always(user) == TRUE
IsActive(user) == user.is_active

\* get_current_user of app.py, on the parts of the Authorization header
\* (none when there is no header): the user or None.
get_current_user_flask(parts, store, t) ==
    IF parts = <<>> THEN None
    ELSE IF Len(parts) # 2 \/ Lower(parts[1]) # "bearer" THEN None
    ELSE LET payload == decode_token(parts[2], t) IN
         IF payload = None THEN None
         ELSE IF "sub" \notin DOMAIN payload THEN None
         ELSE LET user == get_user_by_id(store, payload.sub) IN
              IF user = None THEN None
              ELSE IF ~IsActive(user) THEN None
              ELSE user

\* HTTPBearer() of dependencies.py, then get_current_user: the user, or the
\* status of the HTTPException. The credentials are all that follows the
\* scheme; more than one part is no token.
HTTPException(status) == [status_code |-> status]
get_current_user_fastapi(parts, store, t, zone) ==
    IF Len(parts) < 2 THEN HTTPException(403)
    ELSE IF Lower(parts[1]) # "bearer" THEN HTTPException(403)
    ELSE LET credentials == IF Len(parts) = 2 THEN parts[2] ELSE GarbageToken
             token_data == decode_token_fastapi(credentials, t, zone) IN
         IF token_data = None THEN HTTPException(401)
         ELSE LET user == get_user_by_id(store, token_data.user_id) IN
              IF user = None THEN HTTPException(401)
              ELSE IF ~IsActive(user) THEN HTTPException(403)
              ELSE user

ProtectedOps ==
    {"auth/me", "log_round", "analyze_video", "dashboard_stats",
     "rounds_history", "delete_round"}
Deployments == {"flask", "fastapi"}

\* The tokens a client can send: those issued, those forged from them, and
\* a string that is no token.
IssuedTokens == {i.token : i \in issued}
SentTokens == IssuedTokens \cup {Forged(tk) : tk \in IssuedTokens} \cup {GarbageToken}

\* The Authorization headers sent, as their parts.
Headers ==
    {<<>>, <<"Bearer">>}
    \cup {<<"Bearer", tk>> : tk \in SentTokens}
    \cup {<<s, tk>> : s \in {"bearer", "Basic"}, tk \in IssuedTokens}
    \cup {<<"Bearer", tk, tk>> : tk \in IssuedTokens}

AuthUnchanged == UNCHANGED <<regs, pure_vars, video_vars, api_vars, mem_vars>>

\* Where the handling of the last request stands.
AuthPc == IF aresp = None THEN "done" ELSE aresp.pc

\* No request is being handled.
AuthReady == AuthPc = "done"

\* The calls of create_access_token: with the default expiry for every
\* claims set, and with each explicit delta for Alice's.
CreateAccessTokenCalls ==
    {<<data, None>> : data \in TokenDatas}
    \cup {<<[sub |-> Alice.id, username |-> Alice.username], d>> :
             d \in ExpiresDeltas}

CreateAccessToken ==
    \E c \in CreateAccessTokenCalls :
      LET data == c[1]
          expires_delta == c[2]
      IN
        /\ Cardinality(issued) < MaxTokens
        /\ issued' = issued \cup
               {[token |-> create_access_token(data, expires_delta, now),
                 created |-> now, expires_delta |-> expires_delta]}
        /\ UNCHANGED <<users, now, tz, areq, aresp>>
        /\ AuthUnchanged

Tick ==
    /\ now < MaxTime
    /\ now' = now + 1
    /\ UNCHANGED <<users, tz, issued, areq, aresp>>
    /\ AuthUnchanged

\* UserStore.deactivate_user
DeactivateUser ==
    \E user_id \in DOMAIN users :
        /\ users[user_id].is_active
        /\ users' = [users EXCEPT ![user_id].is_active = FALSE]
        /\ UNCHANGED <<now, tz, issued, areq, aresp>>
        /\ AuthUnchanged

\* A request to a protected route arrives.
ReceiveProtected ==
    \E deployment \in Deployments, op \in ProtectedOps, parts \in Headers :
        /\ AuthReady
        /\ areq' = [deployment |-> deployment, op |-> op, header |-> parts]
        /\ aresp' = [pc |-> "auth"]
        /\ UNCHANGED <<users, now, tz, issued>>
        /\ AuthUnchanged

\* The answer of a request: the status of a rejection (None when the handler
\* ran to its own answer), the user whose data the handler used, and whether
\* the handler touched the rounds store or returned user data.
Answer(status, user, touched) ==
    [pc |-> "done", status |-> status, user |-> user, touched |-> touched]
Rejected(code) == [code |-> code]
UsedFor(user) == [id |-> user.id]

\* require_auth of app.py
RequireAuth ==
    /\ AuthPc = "auth" /\ areq.deployment = "flask"
    /\ LET user == get_current_user_flask(areq.header, users, now) IN
       IF user = None
           THEN aresp' = Answer(Rejected(401), None, FALSE)
           ELSE aresp' = [pc |-> "handler"]
    /\ UNCHANGED <<users, now, tz, issued, areq>>
    /\ AuthUnchanged

\* The body of a route of app.py: it calls get_current_user again; with no
\* user, user['id'] raises TypeError, which delete_round meets after
\* doc_ref.get() and the others before they touch the store.
FlaskHandler ==
    /\ AuthPc = "handler"
    /\ LET user == get_current_user_flask(areq.header, users, now) IN
       IF user = None
           THEN aresp' = Answer(Rejected(500), None, areq.op = "delete_round")
           ELSE aresp' = Answer(None, UsedFor(user), TRUE)
    /\ UNCHANGED <<users, now, tz, issued, areq>>
    /\ AuthUnchanged

\* A route of the FastAPI deployment: Depends(get_current_user), then the body.
FastAPIRoute ==
    /\ AuthPc = "auth" /\ areq.deployment = "fastapi"
    /\ LET user == get_current_user_fastapi(areq.header, users, now, tz) IN
       IF "status_code" \in DOMAIN user
           THEN aresp' = Answer(Rejected(user.status_code), None, FALSE)
           ELSE aresp' = Answer(None, UsedFor(user), TRUE)
    /\ UNCHANGED <<users, now, tz, issued, areq>>
    /\ AuthUnchanged

\* verify_token and decode_token of jwt_handler.py are called on a token.
CallVerifyToken ==
    \E tk \in SentTokens :
        /\ AuthReady
        /\ areq' = [deployment |-> "fastapi", op |-> "verify_token",
                    header |-> <<"Bearer", tk>>]
        /\ aresp' = [pc |-> "verify"]
        /\ UNCHANGED <<users, now, tz, issued>>
        /\ AuthUnchanged

ReturnVerifyToken ==
    /\ AuthPc = "verify"
    /\ aresp' = [pc |-> "done",
                 verify_token |-> verify_token(areq.header[2], now, tz),
                 decode_token |-> decode_token_fastapi(areq.header[2], now, tz)]
    /\ UNCHANGED <<users, now, tz, issued, areq>>
    /\ AuthUnchanged

InitAuth ==
    /\ users = StoredUsers
    /\ regs = <<>>
    /\ now = 0
    /\ tz \in TimeZones
    /\ issued = {}
    /\ areq = None
    /\ aresp = None
    /\ PureIdle /\ VideoIdle /\ ApiIdle /\ MemIdle

NextAuth ==
    \/ CreateAccessToken \/ Tick \/ DeactivateUser
    \/ ReceiveProtected \/ RequireAuth \/ FlaskHandler \/ FastAPIRoute
    \/ CallVerifyToken \/ ReturnVerifyToken

SpecAuth == InitAuth /\ [][NextAuth]_vars

\* ------------------------------------------------- login and token refresh

\* The tokens of the login model.
MaxSessionTokens == 2

REFRESH_TOKEN_EXPIRE_DAYS == 7
\* timedelta(days = d), in ticks.
Days(d) == Minutes(24 * 60 * d)

\* pwd_context.hash and pwd_context.verify.
get_password_hash(password) == "bcrypt$" \o password
verify_password(plain_password, hashed_password) ==
    get_password_hash(plain_password) = hashed_password

\* The users collection with the password hashes registration stored.
PasswordOf(user) == user.username \o "-secret"
SessionUsers ==
    [id \in DOMAIN StoredUsers |->
        StoredUsers[id]
        @@ [hashed_password |-> get_password_hash(StoredUsers[id].username \o "-secret")]]

\* where('username', '==', username).limit(1): the document or None.
get_user_by_username(store, username) ==
    IF \E id \in DOMAIN store : store[id].username = username
    THEN store[CHOOSE id \in DOMAIN store : store[id].username = username]
    ELSE None

\* jwt_handler.py, lines 79-103: the token carries the claim type = refresh.
create_refresh_token(data, expires_delta, utcnow) ==
    LET expire == IF Truthy(expires_delta)
                      THEN utcnow + Seconds(expires_delta.seconds)
                      ELSE utcnow + Days(REFRESH_TOKEN_EXPIRE_DAYS)
    IN jwt_encode(data @@ [type |-> "refresh"], expire, SECRET_KEY)

\* The token login and refresh answer with.
LoginToken(user, utcnow) ==
    create_access_token([sub |-> user.id, username |-> user.username],
                        [seconds |-> 60 * ACCESS_TOKEN_EXPIRE_MINUTES], utcnow)

\* An answer that carries a new access token.
TokenAnswer(user, token) ==
    [access_token |-> token] @@ Answer(None, UsedFor(user), FALSE)

\* login of app.py (lines 367-432) and of routes.py (lines 76-132): the
\* answer to the credentials. Only app.py answers an empty username or
\* password with 400; routes.py goes on to look the user up.
login(deployment, store, credentials, utcnow) ==
    LET user == get_user_by_username(store, credentials.username) IN
    IF deployment = "flask" /\ (credentials.username = "" \/ credentials.password = "")
    THEN Answer(Rejected(400), None, FALSE)
    ELSE IF user = None THEN Answer(Rejected(401), None, FALSE)
    ELSE IF ~verify_password(credentials.password, user.hashed_password)
    THEN Answer(Rejected(401), None, FALSE)
    ELSE IF ~IsActive(user) THEN Answer(Rejected(403), None, FALSE)
    ELSE TokenAnswer(user, LoginToken(user, utcnow))

\* A plausible slip: refresh forgets the is_active check.
refresh_token_unchecked(store, refresh_token_str, utcnow, zone) ==
    LET token_data == decode_token_fastapi(refresh_token_str, utcnow, zone) IN
    IF token_data = None THEN Answer(Rejected(401), None, FALSE)
    ELSE LET user == get_user_by_id(store, token_data.user_id) IN
         IF user = None THEN Answer(Rejected(401), None, FALSE)
         ELSE TokenAnswer(user, LoginToken(user, utcnow))

\* refresh_token of routes.py, lines 161-210.
refresh_token(store, refresh_token_str, utcnow, zone) ==
    LET token_data == decode_token_fastapi(refresh_token_str, utcnow, zone) IN
    IF token_data = None THEN Answer(Rejected(401), None, FALSE)
    ELSE LET user == get_user_by_id(store, token_data.user_id) IN
         IF user = None \/ ~IsActive(user) THEN Answer(Rejected(401), None, FALSE)
         ELSE TokenAnswer(user, LoginToken(user, utcnow))

\* The credentials sent: right ones, a wrong password, an unknown user and a
\* missing password.
Credentials ==
    {[username |-> u.username, password |-> PasswordOf(u)] : u \in AuthUsers}
    \cup {[username |-> "alice", password |-> "guess"],
          [username |-> "ghost", password |-> "ghost-secret"],
          [username |-> "alice", password |-> ""]}

\* The calls of create_refresh_token: with the default expiry for Alice, Bob
\* and a user no longer stored, and with a delta of one second for Alice.
CreateRefreshTokenCalls ==
    {<<data, None>> : data \in {d \in TokenDatas : "sub" \in DOMAIN d}}
    \cup {<<[sub |-> Alice.id, username |-> Alice.username], [seconds |-> 1]>>}

CreateRefreshToken ==
    \E c \in CreateRefreshTokenCalls :
        /\ AuthReady
        /\ Cardinality(issued) < MaxSessionTokens
        /\ issued' = issued \cup
               {[token |-> create_refresh_token(c[1], c[2], now),
                 created |-> now, expires_delta |-> c[2]]}
        /\ UNCHANGED <<users, now, tz, areq, aresp>>
        /\ AuthUnchanged

\* POST /auth/login arrives.
ReceiveLogin ==
    \E deployment \in Deployments, credentials \in Credentials :
        /\ AuthReady
        /\ Cardinality(issued) < MaxSessionTokens
        /\ areq' = [deployment |-> deployment, op |-> "auth/login", header |-> <<>>,
                    credentials |-> credentials]
        /\ aresp' = [pc |-> "login"]
        /\ UNCHANGED <<users, now, tz, issued>>
        /\ AuthUnchanged

\* The token of an answer is on its way to the client.
Issue(answer) ==
    IF "access_token" \in DOMAIN answer
    THEN issued' = issued \cup
             {[token |-> answer.access_token, created |-> now,
               expires_delta |-> [seconds |-> 60 * ACCESS_TOKEN_EXPIRE_MINUTES]]}
    ELSE issued' = issued

Login ==
    /\ AuthPc = "login"
    /\ aresp' = login(areq.deployment, users, areq.credentials, now)
    /\ Issue(aresp')
    /\ UNCHANGED <<users, now, tz, areq>>
    /\ AuthUnchanged

\* POST /auth/refresh arrives with a token as refresh_token_str.
ReceiveRefresh ==
    \E tk \in SentTokens :
        /\ AuthReady
        /\ Cardinality(issued) < MaxSessionTokens
        /\ areq' = [deployment |-> "fastapi", op |-> "auth/refresh", header |-> <<>>,
                    refresh_token_str |-> tk]
        /\ aresp' = [pc |-> "refresh"]
        /\ UNCHANGED <<users, now, tz, issued>>
        /\ AuthUnchanged

Refresh ==
    /\ AuthPc = "refresh"
    /\ aresp' = refresh_token(users, areq.refresh_token_str, now, tz)
    /\ Issue(aresp')
    /\ UNCHANGED <<users, now, tz, areq>>
    /\ AuthUnchanged

\* A request to a protected route arrives with an issued token as its bearer
\* token.
ReceiveBearer ==
    \E deployment \in Deployments, op \in ProtectedOps, tk \in IssuedTokens :
        /\ AuthReady
        /\ areq' = [deployment |-> deployment, op |-> op, header |-> <<"Bearer", tk>>]
        /\ aresp' = [pc |-> "auth"]
        /\ UNCHANGED <<users, now, tz, issued>>
        /\ AuthUnchanged

\* The server runs in UTC.
InitSession ==
    /\ users = SessionUsers
    /\ regs = <<>>
    /\ now = 0
    /\ tz = 0
    /\ issued = {}
    /\ areq = None
    /\ aresp = None
    /\ PureIdle /\ VideoIdle /\ ApiIdle /\ MemIdle

NextSession ==
    \/ CreateRefreshToken \/ Tick \/ DeactivateUser
    \/ ReceiveLogin \/ Login \/ ReceiveRefresh \/ Refresh
    \/ ReceiveBearer \/ RequireAuth \/ FlaskHandler \/ FastAPIRoute

SpecSession == InitSession /\ [][NextSession]_vars

\* ------------------------------------------------- conversation memory

\* The appends made to the store.
MaxAppends == 7
\* The greatest k get_recent is called with.
MaxK == 3
\* get_recent's k in MemoryBackedLLM.chat (memory_layer.py, line 17).
ChatK == 5

AgentIds == {"coach", "scout"}
UserIds == {"alice", "bob"}
\* The (agent_id, user_id) pairs that use the store.
Pairs == {<<"coach", "alice">>, <<"coach", "bob">>, <<"scout", "alice">>}

\* The message and the reply of the i-th interaction stored, and the content
\* stored for it (memory_layer.py, line 35): contents are told apart by
\* their position in the file.
Note(i) == "note-" \o ToString(i)
CoachReply(i) == "reply-" \o ToString(i)
Interaction(message, reply) == "User: " \o message \o "\nCoach: " \o reply

\* json.dumps(record) + "\n" and json.loads(line) for a record of strings:
\* one line of the file per record.
json_dumps(record) == [json |-> record]
json_loads(line) == line.json

\* seq[start:] of Python: a negative start counts from the end, and -0 is 0.
SliceFrom(seq, start) ==
    LET n == Len(seq)
        first == IF start < 0 THEN (IF n + start < 0 THEN 0 ELSE n + start)
                 ELSE (IF start > n THEN n ELSE start)
    IN  SubSeq(seq, first + 1, n)

\* simple_memory.py, lines 14-17: the file after the append.
append(lines, agent_id, user_id, content) ==
    Append(lines, json_dumps([agent_id |-> agent_id, user_id |-> user_id,
                              content |-> content]))

\* The contents of the records of lines for the pair, in file order.
RECURSIVE Filtered(_, _, _)
Filtered(lines, agent_id, user_id) ==
    IF lines = <<>> THEN <<>>
    ELSE LET rec == json_loads(Head(lines))
             rest == Filtered(Tail(lines), agent_id, user_id)
         IN  IF rec.agent_id = agent_id /\ rec.user_id = user_id
             THEN <<rec.content>> \o rest ELSE rest

\* simple_memory.py, lines 19-37.
get_recent(lines, agent_id, user_id, k) ==
    SliceFrom(Filtered(lines, agent_id, user_id), 0 - k)

\* "\n".join(chunks)
RECURSIVE JoinLines(_)
JoinLines(chunks) ==
    IF chunks = <<>> THEN ""
    ELSE IF Len(chunks) = 1 THEN chunks[1]
    ELSE chunks[1] \o "\n" \o JoinLines(Tail(chunks))

\* memory_layer.py, lines 16-29: the messages handed to the LLM.
ChatMessages(lines, agent_id, user_id, system_prompt, message, context_data) ==
    LET history_text == JoinLines(get_recent(lines, agent_id, user_id, ChatK))
    IN  <<[role |-> "system", content |-> system_prompt]>>
        \o (IF history_text # ""
            THEN <<[role |-> "system", content |-> "Recent history:\n" \o history_text]>>
            ELSE <<>>)
        \o (IF context_data # ""
            THEN <<[role |-> "system", content |-> "Current stats:\n" \o context_data]>>
            ELSE <<>>)
        \o <<[role |-> "user", content |-> message]>>

\* The store grows by content for the pair.
Remember(agent_id, user_id, content) ==
    /\ mem_store' = append(mem_store, agent_id, user_id, content)
    /\ appended' = [appended EXCEPT ![<<agent_id, user_id>>] = Append(@, content)]

MemUnchanged == UNCHANGED <<pure_vars, video_vars, api_vars, auth_vars>>

\* SimpleMemoryStore.append
MemAppend ==
    \E p \in Pairs :
        /\ Len(mem_store) < MaxAppends
        /\ Remember(p[1], p[2], Interaction(Note(Len(mem_store) + 1),
                                             CoachReply(Len(mem_store) + 1)))
        /\ mem_call' = [fn |-> "append", agent_id |-> p[1], user_id |-> p[2]]
        /\ mem_ret' = None
        /\ MemUnchanged

\* SimpleMemoryStore.get_recent, for a stored pair or one that never wrote.
MemGetRecent ==
    \E agent_id \in AgentIds, user_id \in UserIds, k \in 0..MaxK :
        /\ mem_call' = [fn |-> "get_recent", agent_id |-> agent_id,
                        user_id |-> user_id, k |-> k]
        /\ mem_ret' = [contents |-> get_recent(mem_store, agent_id, user_id, k)]
        /\ UNCHANGED <<mem_store, appended>>
        /\ MemUnchanged

\* MemoryBackedLLM.chat, lines 13-37: the LLM answers, or llm.complete raises
\* and nothing is stored.
MemChat ==
    \E p \in Pairs, context_data \in {"", "{}"}, answers \in BOOLEAN :
        LET message == Note(Len(mem_store) + 1)
            messages == ChatMessages(mem_store, p[1], p[2], "You are a boxing coach.",
                                     message, context_data)
            reply == CoachReply(Len(mem_store) + 1)
        IN  /\ Len(mem_store) < MaxAppends
            /\ mem_call' = [fn |-> "chat", agent_id |-> p[1], user_id |-> p[2],
                            message |-> message, context_data |-> context_data]
            /\ IF answers
               THEN /\ Remember(p[1], p[2], Interaction(message, reply))
                    /\ mem_ret' = [messages |-> messages, reply |-> Str(reply)]
               ELSE /\ UNCHANGED <<mem_store, appended>>
                    /\ mem_ret' = [messages |-> messages, reply |-> None]
            /\ MemUnchanged

InitMemory ==
    /\ mem_store = <<>>
    /\ appended = [p \in AgentIds \X UserIds |-> <<>>]
    /\ mem_call = None
    /\ mem_ret = None
    /\ PureIdle /\ VideoIdle /\ ApiIdle /\ AuthIdle

NextMemory == MemAppend \/ MemGetRecent \/ MemChat

SpecMemory == InitMemory /\ [][NextMemory]_vars

\* ------------------------------------------------- video coaching feedback

\* format(x, '.0f'): x to the nearest integer, a tie to the even neighbour.
Fmt0(q) == ToString(RoundTo(q, 1).num)
Percent(q) == Fmt0(RatMul(q, Int2Rat(100)))

\* Lines 678-684: the risk headline. The strings are those of the code
\* without the pictograph each starts with.
HIGH_RISK == "HIGH RISK - Your danger score is critically high."
MODERATE_RISK == "MODERATE RISK - Some defensive concerns to address."
LOW_RISK == "LOW RISK - Good defensive fundamentals."

\* A plausible slip: strict comparisons in the headline only.
RiskHeadline_strict(danger_score) ==
    IF RatGT(danger_score, Rat(7, 10)) THEN HIGH_RISK
    ELSE IF RatGT(danger_score, Rat(4, 10)) THEN MODERATE_RISK
    ELSE LOW_RISK

RiskHeadline(danger_score) ==
    IF RatGE(danger_score, Rat(7, 10)) THEN HIGH_RISK
    ELSE IF RatGE(danger_score, Rat(4, 10)) THEN MODERATE_RISK
    ELSE LOW_RISK

\* Lines 686-692: the guard comment.
GuardComment(guard_down_ratio) ==
    IF RatGT(guard_down_ratio, Rat(3, 10))
        THEN "Guard down " \o Percent(guard_down_ratio) \o "% of the time - MAJOR concern."
    ELSE IF RatGT(guard_down_ratio, Rat(15, 100))
        THEN "Guard dropping " \o Percent(guard_down_ratio) \o "% of frames - needs work."
    ELSE "Solid guard discipline (" \o Percent(guard_down_ratio) \o "% down)."

\* Lines 694-696: the tracking caveat, as the list of parts it adds.
TrackingCaveat(pose_coverage) ==
    IF RatLT(pose_coverage, Rat(5, 10))
        THEN <<"Low tracking coverage (" \o Percent(pose_coverage)
                   \o "%) - video quality issue or angles.">>
    ELSE <<>>

\* A plausible slip: the bounds of the silent band are exclusive.
HipComment_inclusive(hip_rotation) ==
    IF RatLE(hip_rotation, Int2Rat(25))
        THEN <<"Hip rotation weak (" \o Fmt0(hip_rotation)
                   \o " deg) - work on stance and pivots.">>
    ELSE IF RatGE(hip_rotation, Int2Rat(40))
        THEN <<"Good hip rotation (" \o Fmt0(hip_rotation) \o " deg) - generating power.">>
    ELSE <<>>

\* Lines 698-703: the hip comment, as the list of parts it adds ("deg" stands
\* for the degree sign).
HipComment(hip_rotation) ==
    IF RatLT(hip_rotation, Int2Rat(25))
        THEN <<"Hip rotation weak (" \o Fmt0(hip_rotation)
                   \o " deg) - work on stance and pivots.">>
    ELSE IF RatGT(hip_rotation, Int2Rat(40))
        THEN <<"Good hip rotation (" \o Fmt0(hip_rotation) \o " deg) - generating power.">>
    ELSE <<>>

\* Lines 705-706: the strategy part; it starts with a line break.
StrategyPart(strategy_text) == "\nStrategy: " \o strategy_text

\* Lines 670-708: feedback_parts, which the function returns joined by line breaks.
generate_video_coaching(metrics, strategy_text) ==
    <<RiskHeadline(metrics.video_danger_score), GuardComment(metrics.guard_down_ratio)>>
    \o TrackingCaveat(metrics.pose_coverage)
    \o HipComment(metrics.avg_hip_rotation)
    \o <<StrategyPart(strategy_text)>>

\* The metrics the feedback is computed from: ratios of small denominators
\* and the thresholds of the comments, and hip rotations around 25 and 40 degrees.
CoachingRatios == UnitRats(MaxRatioDen) \cup {Rat(3, 10), Rat(15, 100), Rat(49, 100)}
HipRotations ==
    {Zero, Rat(49, 2), Int2Rat(25), Int2Rat(30), Int2Rat(40), Rat(81, 2), Int2Rat(90)}
CoachingInputs ==
    [guard_down_ratio : CoachingRatios,
     pose_coverage : {Zero, Rat(1, 4), Rat(49, 100), Rat(1, 2), Rat(3, 4), One},
     avg_hip_rotation : HipRotations]

InitCoaching ==
    /\ call \in {[fn |-> "analyze_video", arg |-> m] : m \in CoachingInputs}
    /\ ret = Pending
    /\ pure_pc = "call"
    /\ VideoIdle
    /\ ApiIdle
    /\ AuthIdle
    /\ MemIdle

\* app.py line 582
CoachScore ==
    /\ pure_pc = "call"
    /\ call.fn = "analyze_video"
    /\ ret' = [enriched_metrics |-> video_form_and_danger(call.arg)]
    /\ pure_pc' = "scored"
    /\ UNCHANGED <<call, video_vars, api_vars, auth_vars, mem_vars>>

\* app.py line 590
CoachStrategy ==
    /\ pure_pc = "scored"
    /\ ret' = [enriched_metrics |-> ret.enriched_metrics,
               strategy |-> get_strategy(ret.enriched_metrics.video_danger_score)]
    /\ pure_pc' = "strategy"
    /\ UNCHANGED <<call, video_vars, api_vars, auth_vars, mem_vars>>

\* app.py line 625
CoachFeedback ==
    /\ pure_pc = "strategy"
    /\ ret' = [enriched_metrics |-> ret.enriched_metrics,
               strategy |-> ret.strategy,
               coaching |-> generate_video_coaching(ret.enriched_metrics, ret.strategy[2])]
    /\ pure_pc' = "return"
    /\ UNCHANGED <<call, video_vars, api_vars, auth_vars, mem_vars>>

NextCoaching == CoachScore \/ CoachStrategy \/ CoachFeedback

SpecCoaching == InitCoaching /\ [][NextCoaching]_vars

\* -------------------------------------------------------------- claims

\* C1: for every danger score d in [0,1], get_strategy(d) is one of the three
\* fixed (title, text) pairs, chosen with inclusive lower bounds:
\* DEFENSE_FIRST iff d >= 0.7, RING_CUTTING iff 0.4 <= d < 0.7, PRESSURE_BODY
\* iff d < 0.4; in particular 0.7 -> DEFENSE_FIRST, 0.6999 -> RING_CUTTING,
\* 0.4 -> RING_CUTTING, 0.3999 -> PRESSURE_BODY.
C1_StrategyTiers ==
    Returned("get_strategy") =>
        LET d == call.arg
            ge07 == 10 * d.num >= 7 * d.den
            ge04 == 10 * d.num >= 4 * d.den
        IN  /\ ret \in {DEFENSE_FIRST, RING_CUTTING, PRESSURE_BODY}
            /\ (ret = DEFENSE_FIRST) <=> ge07
            /\ (ret = RING_CUTTING) <=> (ge04 /\ ~ge07)
            /\ (ret = PRESSURE_BODY) <=> ~ge04
            /\ (d = [num |-> 7, den |-> 10]) => ret[1] = "DEFENSE_FIRST"
            /\ (d = [num |-> 6999, den |-> 10000]) => ret[1] = "RING_CUTTING"
            /\ (d = [num |-> 2, den |-> 5]) => ret[1] = "RING_CUTTING"
            /\ (d = [num |-> 3999, den |-> 10000]) => ret[1] = "PRESSURE_BODY"

\* C1's case: get_strategy has returned for a score exactly on the 0.7 boundary.
C1_Witness ==
    /\ Returned("get_strategy")
    /\ call.arg = [num |-> 7, den |-> 10]
    /\ ret = DEFENSE_FIRST

\* C2: for any manual round record whose fields are non-negative (scores above
\* 10 and large clean_shots_taken included), calculate_danger returns a value
\* in the closed interval [0, 1].
C2_DangerInUnitInterval ==
    Returned("calculate_danger") =>
        /\ ret.den > 0
        /\ 0 <= ret.num
        /\ ret.num <= ret.den

\* C2's case: a record with a score above 10 and many clean shots, whose
\* weighted sum exceeds 1, has been scored.
C2_Witness ==
    /\ Returned("calculate_danger")
    /\ call.arg.defense_score = [num |-> 23, den |-> 2]
    /\ call.arg.ring_control_score = [num |-> 12, den |-> 1]
    /\ call.arg.clean_shots_taken = [num |-> 12, den |-> 1]
    /\ ret = One

\* Twice a score that is a multiple of 1/2.
Twice(x) == (2 * x.num) \div x.den

AllManualFieldsPresent(r) ==
    /\ r.clean_shots_taken # Absent
    /\ r.defense_score # Absent
    /\ r.ring_control_score # Absent

\* C3: calculate_danger equals
\*   clamp(0.5*(clean_shots_taken/5) + 0.3*((10-defense_score)/10)
\*         + 0.2*((10-ring_control_score)/10), 0, 1)
\* for every input record holding the three fields; {defense:2, ring_control:3,
\* clean_shots:5} gives 0.88 and DEFENSE_FIRST, and {pressure:8, ring_control:9,
\* defense:9, clean_shots:0} gives 0.05 and PRESSURE_BODY.  The sum is stated
\* here over the common denominator 200:
\*   (20*clean + 3*(20 - 2*defense) + 2*(20 - 2*ring_control)) / 200.
C3_DangerFormula ==
    (Returned("calculate_danger") /\ AllManualFieldsPresent(call.arg)) =>
        LET r == call.arg
            n == 20 * r.clean_shots_taken.num + 3 * (20 - Twice(r.defense_score))
                 + 2 * (20 - Twice(r.ring_control_score))
        IN  /\ (n <= 0) => ret = Zero
            /\ (n >= 200) => ret = One
            /\ (0 < n /\ n < 200) => (ret.num * 200 = n * ret.den /\ ret.den > 0)
            /\ (/\ r.pressure_score = Absent
                /\ r.defense_score = Int2Rat(2)
                /\ r.ring_control_score = Int2Rat(3)
                /\ r.clean_shots_taken = Int2Rat(5))
               => (ret = [num |-> 22, den |-> 25] /\ get_strategy(ret) = DEFENSE_FIRST)
            /\ (/\ r.pressure_score = Int2Rat(8)
                /\ r.defense_score = Int2Rat(9)
                /\ r.ring_control_score = Int2Rat(9)
                /\ r.clean_shots_taken = Int2Rat(0))
               => (ret = [num |-> 1, den |-> 20] /\ get_strategy(ret) = PRESSURE_BODY)

\* C3's case: the high-risk scenario has been scored as 0.88.
C3_Witness ==
    /\ Returned("calculate_danger")
    /\ call.arg.defense_score = Int2Rat(2)
    /\ call.arg.ring_control_score = Int2Rat(3)
    /\ call.arg.clean_shots_taken = Int2Rat(5)
    /\ ret = [num |-> 22, den |-> 25]

\* C6: for every metrics record with guard_down_ratio g and pose_coverage c in
\* [0,1], video_form_and_danger returns
\*   video_danger_score = clamp(0.6*g + 0.4*(1 - c), 0, 1), in [0,1], and
\*   video_form_score   = clamp(10 - 5*g - 2*(1 - c), 0, 10), in [0,10];
\* with c = 1 and g = 0 the result is danger 0, form 10, focus
\* "pressure_and_body".  With g = gn/gd and c = cn/cd the two sums are
\*   (6*gn*cd + 4*(cd - cn)*gd) / (10*gd*cd)  and
\*   (10*gd*cd - 5*gn*cd - 2*(cd - cn)*gd) / (gd*cd).
C6_VideoScores ==
    (/\ Returned("video_form_and_danger")
     /\ call.arg.guard_down_ratio # Absent
     /\ call.arg.pose_coverage # Absent) =>
        LET g == call.arg.guard_down_ratio
            c == call.arg.pose_coverage
            dn == 6 * g.num * c.den + 4 * (c.den - c.num) * g.den
            dd == 10 * g.den * c.den
            fn == 10 * g.den * c.den - 5 * g.num * c.den - 2 * (c.den - c.num) * g.den
            fd == g.den * c.den
            danger == ret.video_danger_score
            form == ret.video_form_score
        IN  /\ danger.den > 0 /\ 0 <= danger.num /\ danger.num <= danger.den
            /\ form.den > 0 /\ 0 <= form.num /\ form.num <= 10 * form.den
            /\ (dn <= 0) => danger = Zero
            /\ (dn >= dd) => danger = One
            /\ (0 < dn /\ dn < dd) => danger.num * dd = dn * danger.den
            /\ (fn <= 0) => form = Zero
            /\ (fn >= 10 * fd) => form = Int2Rat(10)
            /\ (0 < fn /\ fn < 10 * fd) => form.num * fd = fn * form.den
            /\ (c = One /\ g = Zero) =>
                   /\ danger = Zero
                   /\ form = Int2Rat(10)
                   /\ ret.video_focus_next_round = "pressure_and_body"
            /\ ret.guard_down_ratio = g
            /\ ret.pose_coverage = c

\* C6's case: a record with a partly dropped guard and partial coverage has
\* been scored (g = 1/2, c = 3/4: danger 0.4, form 7).
C6_Witness ==
    /\ Returned("video_form_and_danger")
    /\ call.arg.guard_down_ratio = [num |-> 1, den |-> 2]
    /\ call.arg.pose_coverage = [num |-> 3, den |-> 4]
    /\ ret.video_danger_score = [num |-> 2, den |-> 5]
    /\ ret.video_form_score = Int2Rat(7)
    /\ ret.video_focus_next_round = "ring_cutting"

InUnit(q) == q.den > 0 /\ 0 <= q.num /\ q.num <= q.den

\* C4: for any finite frame sequence (any mix of detected and undetected
\* frames, the empty sequence included) the record analyze_video returns has
\* pose_frames <= total_frames, 0 <= pose_coverage <= 1 and
\* 0 <= guard_down_ratio <= 1; at every step of the frame loop
\* guard_down_frames <= pose_detected_frames <= frame_idx; if total_frames = 0
\* then pose_coverage and guard_down_ratio are exactly 0 and no division by
\* zero occurs.
C4_AggregatorInvariant ==
    /\ (locals # None) =>
           /\ 0 <= locals.guard_down_frames
           /\ locals.guard_down_frames <= locals.pose_detected_frames
           /\ locals.pose_detected_frames <= locals.frame_idx
    /\ (pc = "done") =>
           /\ result.pose_frames <= result.total_frames
           /\ InUnit(result.pose_coverage)
           /\ InUnit(result.guard_down_ratio)
           /\ (result.total_frames = 0) =>
                  (result.pose_coverage = Zero /\ result.guard_down_ratio = Zero)
    /\ exc # ZeroDivisionError
    /\ (pc \in {"done", "raised"} /\ src.openable /\ src.frames = <<>>) => pc = "done"

\* C4's case: a mixed video (a detection with the guard down, a frame without
\* a detection, a detection with the guard up) has been aggregated.
C4_Witness ==
    /\ pc = "done"
    /\ Len(src.frames) = 3
    /\ result.total_frames = 3
    /\ result.pose_frames = 2
    /\ result.pose_coverage = [num |-> 2, den |-> 3]
    /\ result.guard_down_ratio = [num |-> 1, den |-> 2]

AllFramesWithoutPose ==
    \A i \in 1..Len(src.frames) : src.frames[i] = NoPoseFrame

\* C5: for a video of N >= 1 frames, each of them read and none yielding a
\* pose detection, analyze_video returns total_frames = N, pose_frames = 0,
\* pose_coverage = 0, guard_down_ratio = 0, all averages 0 and
\* head_movement_score = 0; video_form_and_danger then gives danger exactly
\* 0.4 and get_strategy classifies it as RING_CUTTING.
C5_ZeroDetections ==
    (/\ pc \in {"done", "raised"}
     /\ src.openable
     /\ Len(src.frames) >= 1
     /\ AllFramesWithoutPose) =>
        /\ pc = "done"
        /\ result.total_frames = Len(src.frames)
        /\ result.pose_frames = 0
        /\ result.pose_coverage = Zero
        /\ result.guard_down_ratio = Zero
        /\ result.avg_left_guard_height = Zero
        /\ result.avg_right_guard_height = Zero
        /\ result.avg_hip_rotation = Zero
        /\ result.avg_stance_width = Zero
        /\ result.head_movement_score = Zero
        /\ LET enriched == video_form_and_danger(result)
           IN  /\ enriched.video_danger_score = [num |-> 2, den |-> 5]
               /\ enriched.video_focus_next_round = "ring_cutting"
               /\ get_strategy(enriched.video_danger_score) = RING_CUTTING

\* C5's case: a three-frame video without any detection has been analysed.
C5_Witness ==
    /\ pc = "done"
    /\ src.frames = <<NoPoseFrame, NoPoseFrame, NoPoseFrame>>
    /\ result.total_frames = 3
    /\ result.pose_frames = 0

\* The video has exactly one frame that fails to decode, in its middle, and
\* every other frame is read without an exception.
OneFailedReadInTheMiddle ==
    /\ src.openable
    /\ \E i \in 2..(Len(src.frames) - 1) :
           /\ src.frames[i] = ReadFailFrame
           /\ \A j \in 1..Len(src.frames) :
                  j # i => src.frames[j].kind \in {"no_pose", "pose"}

\* C7: a per-frame soft failure never aborts the stream: when one frame in the
\* middle of a video fails to decode, or yields no pose, analyze_video does not
\* raise and goes on to read and count every later frame, so total_frames
\* equals the number of frames in the source.
C7_SoftFailureContinues ==
    (pc \in {"done", "raised"} /\ OneFailedReadInTheMiddle) =>
        /\ pc = "done"
        /\ pos = Len(src.frames)
        /\ result.total_frames = Len(src.frames)

\* C9: the frame-source handle analyze_video opened is released on every exit
\* path that follows a successful open: the normal end of the stream, a
\* frame-read failure, and an exception raised while a frame is processed.
C9_CaptureReleased ==
    (pc \in {"done", "raised"} /\ src.openable) => cap = "released"

\* The last request handled was an authenticated analyze_video upload that
\* was saved and whose file cv2.VideoCapture could not open.
UnopenableUpload(req) ==
    /\ req # None /\ req.op = "analyze_video" /\ req.user # None
    /\ req.has_file /\ req.filename # "" /\ ~req.save_fails
    /\ ~req.source.openable

\* C8: if the video source cannot be opened, analyze_video fails before any
\* frame is read and before the pose detector is invoked and returns no
\* metrics record; the analyze_video endpoint stores no round and answers 400
\* with a message that describes the failure, which is not the answer of the
\* generic server error path.
C8_OpenFailureIsClientError ==
    /\ [](UnopenableUpload(request) =>
            /\ run.pos = 0 /\ run.detect_calls = <<>> /\ run.cap = "unopened"
            /\ run.result = None
            /\ caught = Exception("ValueError", <<"Could not open video: ", VideoPath>>)
            /\ response.status = 400
            /\ response.body.message =
                  <<"Video analysis error: ", "Could not open video: ", VideoPath>>
            /\ response # analyze_video_except_generic(caught)
            /\ response # internal_error)
    /\ [][UnopenableUpload(request') => rounds' = rounds /\ clock' = clock]_vars

\* C8 witness: an unopenable upload was answered while a round was stored.
C8_Witness ==
    /\ UnopenableUpload(request)
    /\ response.status = 400
    /\ DOMAIN rounds # {}

\* The elements of a sequence.
Range(seq) == {seq[i] : i \in DOMAIN seq}

\* The exception is an input error: the ValueError that analyze_video raises
\* for a source that cannot be opened, or that float() and int() raise for a
\* malformed score.
FatalInputError(e) == e.type = "ValueError"

\* C10: an exception other than an input error, raised while
\* log_round, analyze_video, dashboard_stats, rounds_history or delete_round
\* handles a request, is answered with status 500 and a message that holds
\* no text of the exception.
C10_GenericServerError ==
    (caught # None /\ ~FatalInputError(caught)) =>
        /\ response.status = 500
        /\ Range(response.body.message) \cap Range(caught.text) = {}

\* An authenticated log_round request whose JSON payload lacks one of the
\* four required fields.
LacksRequiredField(req) ==
    /\ req # None /\ req.op = "log_round" /\ req.user # None
    /\ req.payload # None
    /\ \E f \in {"pressure_score", "ring_control_score", "defense_score",
                 "clean_shots_taken"} : f \notin DOMAIN req.payload

\* An authenticated analyze_video request without a 'video' file part, or
\* with one whose filename is empty.
LacksVideoFile(req) ==
    /\ req # None /\ req.op = "analyze_video" /\ req.user # None
    /\ (~req.has_file \/ req.filename = "")

\* C11: a log_round request whose payload lacks a required field is answered
\* 400 before calculate_danger or get_strategy is called and stores no round;
\* an analyze_video request without a video file part, or with an empty
\* filename, is answered 400 before analyze_video_file is called and stores
\* no round.
C11_RejectedBeforeTheCore ==
    /\ [](LacksRequiredField(request) =>
            /\ response.status = 400
            /\ "calculate_danger" \notin Range(calls)
            /\ "get_strategy" \notin Range(calls)
            /\ "rounds.add" \notin Range(calls))
    /\ [](LacksVideoFile(request) =>
            /\ response.status = 400
            /\ "analyze_video_file" \notin Range(calls)
            /\ "rounds.add" \notin Range(calls)
            /\ run = None)
    /\ [][(LacksRequiredField(request') \/ LacksVideoFile(request'))
            => rounds' = rounds /\ clock' = clock]_vars

\* C11 witness: a payload without defense_score was rejected while a round
\* was stored.
C11_Witness ==
    /\ LacksRequiredField(request)
    /\ "pressure_score" \in DOMAIN request.payload
    /\ response.status = 400
    /\ DOMAIN rounds # {}

\* The three copies of the strategy table give the same pair for d.
OneTable(d) ==
    /\ get_strategy_openshift(d) = get_strategy(d)
    /\ get_strategy_fastapi(d) = get_strategy(d)

\* The round was stored by analyze_video.
IsVideoRound(doc) == "analysis_type" \in DOMAIN doc

\* C12: for every danger score d, get_strategy of src/app.py, of
\* deployments/openshift/app.py and of deployments/fastapi-auth/api_server.py
\* return the same (title, text); and the strategy stored with every round,
\* whether log_round scored it from manual fields or analyze_video from a
\* video, is that table's entry for the round's danger score.
C12_SingleStrategyTable ==
    /\ \A d \in DangerInputs : OneTable(d)
    /\ \A i \in DOMAIN rounds :
          /\ <<rounds[i].strategy_title, rounds[i].strategy_text>>
                = get_strategy(rounds[i].danger_score)
          /\ OneTable(rounds[i].danger_score)

\* C12 witness: a manually scored round and a video round are stored, in
\* different tiers.
C12_Witness ==
    \E i, j \in DOMAIN rounds :
        /\ ~IsVideoRound(rounds[i]) /\ IsVideoRound(rounds[j])
        /\ rounds[i].strategy_title # rounds[j].strategy_title

\* The last request handled was a log_round or an analyze_video that stored
\* a round.
StoredARound(req, resp) ==
    /\ req # None /\ req.op \in {"log_round", "analyze_video"}
    /\ resp.status = 200

\* C13: over any sequence of log_round, analyze_video, dashboard_stats,
\* rounds_history and delete_round requests, a stored round keeps its
\* danger_score, form_score, focus_next_round, strategy_title and
\* strategy_text (indeed every field) for as long as it is stored; and a
\* request that scores a round adds exactly one round under an id that no
\* round has or had, instead of updating a stored one.
C13_ScoredResultImmutable ==
    [][/\ \A i \in DOMAIN rounds \cap DOMAIN rounds' : rounds'[i] = rounds[i]
       /\ StoredARound(request', response') =>
            /\ response'.body.id \notin DOMAIN rounds \cup deleted
            /\ DOMAIN rounds' = DOMAIN rounds \cup {response'.body.id}
       /\ ~StoredARound(request', response') => DOMAIN rounds' \subseteq DOMAIN rounds
      ]_vars

\* C13 witness: a user's second round was stored next to the first one, a
\* video round with a form score.
C13_Witness ==
    /\ StoredARound(request, response)
    /\ \E i, j \in DOMAIN rounds :
          /\ i # j /\ rounds[i].user_id = rounds[j].user_id
          /\ "form_score" \in DOMAIN rounds[i]
          /\ rounds[i].date.ts < rounds[j].date.ts

\* The rounds of store whose user_id is uid: what two stores that agree on
\* uid's rounds have in common.
OwnRounds(store, uid) ==
    [i \in {j \in DOMAIN store : store[j].user_id = uid} |-> store[i]]

\* The last request was answered 200 by operation op.
Answered(op) ==
    request # None /\ request.op = op /\ response.status = 200

\* C14: the answers of dashboard_stats and rounds_history to user u are
\* those the handlers give on the store reduced to u's own rounds, so that
\* two stores that agree on u's rounds give u the same answers and the rounds
\* of other users change neither total_rounds, the averages, next_game_plan
\* nor the history; every round listed is u's, and a user without rounds
\* sees total_rounds = 0.
C14_UserIsolation ==
    /\ Answered("dashboard_stats") =>
          /\ response = DashboardResponse(OwnRounds(rounds, request.user.id), request.user)
          /\ OwnRounds(rounds, request.user.id) = <<>>
                => response.body.total_rounds = 0
    /\ Answered("rounds_history") =>
          /\ response = HistoryResponse(OwnRounds(rounds, request.user.id),
                                        request.user, request.limit)
          /\ \A n \in DOMAIN response.body.rounds :
                response.body.rounds[n].user_id = request.user.id

\* C14 witness: a user with a round of their own asked for the dashboard
\* while another user's round was stored.
C14_Witness ==
    /\ Answered("dashboard_stats")
    /\ \E i, j \in DOMAIN rounds :
          /\ rounds[i].user_id = request.user.id
          /\ rounds[j].user_id # request.user.id

\* An authenticated delete_round request that Firestore serves.
DeleteServed(req) ==
    req # None /\ req.op = "delete_round" /\ req.user # None /\ ~req.fault

\* C15: delete_round answers 404 for an id no round is stored under and 403
\* for a round of another user, and leaves the store unchanged in both
\* cases; for the caller's own round it answers 200 and removes exactly that
\* round; and no other request removes a round.
C15_DeleteOnlyOwnRound ==
    [][/\ DeleteServed(request') =>
            IF request'.round_id \notin DOMAIN rounds
            THEN response'.status = 404 /\ rounds' = rounds
            ELSE IF rounds[request'.round_id].user_id # request'.user.id
            THEN response'.status = 403 /\ rounds' = rounds
            ELSE /\ response'.status = 200
                 /\ rounds' = [i \in DOMAIN rounds \ {request'.round_id} |-> rounds[i]]
       /\ ~DeleteServed(request') => DOMAIN rounds \subseteq DOMAIN rounds'
      ]_vars

\* C15 witness: a user was refused the deletion of another user's round,
\* which is still stored next to a round of the caller.
C15_Witness ==
    /\ DeleteServed(request)
    /\ response.status = 403
    /\ request.round_id \in DOMAIN rounds
    /\ \E i \in DOMAIN rounds : rounds[i].user_id = request.user.id

\* The limit get_rounds_history applies for the 'limit' query parameter:
\* 100 when it is absent, and never more than 1000.
EffectiveLimit(limit_arg) ==
    IF limit_arg = Absent THEN 100
    ELSE IF limit_arg.num > 1000 THEN 1000 ELSE limit_arg.num

\* C19: rounds_history returns rounds sorted by date, most recent first, at
\* most `limit` of them (100 by default, never more than 1000), each a stored
\* round of the caller, and `total` is the number of rounds returned.
C19_HistorySortedAndLimited ==
    Answered("rounds_history") =>
        LET listed == response.body.rounds
        IN  /\ response.body.total = Len(listed)
            /\ Len(listed) <= EffectiveLimit(request.limit)
            /\ \A n, m \in DOMAIN listed :
                  n < m => listed[n].date.iso >= listed[m].date.iso
            /\ \A n, m \in DOMAIN listed : n # m => listed[n].id # listed[m].id
            /\ \A n \in DOMAIN listed :
                  /\ listed[n].user_id = request.user.id
                  /\ listed[n].id \in DOMAIN rounds
                  /\ rounds[listed[n].id].user_id = request.user.id

\* C19 witness: two rounds were returned, and the sort had to exchange them:
\* the more recent one has the greater id and came second in the stream.
C19_Witness ==
    /\ Answered("rounds_history")
    /\ Len(response.body.rounds) = 2
    /\ response.body.rounds[1].id > response.body.rounds[2].id

\* The number of rounds stored in store for user id uid.
OwnCount(store, uid) == Cardinality({i \in DOMAIN store : store[i].user_id = uid})

\* C20: dashboard_stats for user u reports total_rounds equal to the number
\* of rounds stored with user_id = u, a number that every successful
\* log_round or analyze_video of u raises by one, every successful
\* delete_round of u lowers by one and nothing else changes; when it is 0,
\* every average is 0.0 and the title and text of next_game_plan are null.
C20_TotalRounds ==
    /\ [](Answered("dashboard_stats") =>
            /\ response.body.total_rounds = OwnCount(rounds, request.user.id)
            /\ OwnCount(rounds, request.user.id) = 0 =>
                  /\ \A k \in DOMAIN response.body.averages :
                        response.body.averages[k] = Zero
                  /\ DOMAIN response.body.averages =
                        {"pressure_score", "ring_control_score", "defense_score",
                         "clean_shots_taken"}
                  /\ response.body.next_game_plan = [title |-> None, text |-> None])
    /\ [][\A u \in AuthUsers :
            OwnCount(rounds', u.id) =
                OwnCount(rounds, u.id)
                + (IF StoredARound(request', response') /\ request'.user = u
                   THEN 1 ELSE 0)
                - (IF DeleteServed(request') /\ response'.status = 200
                      /\ request'.user = u
                   THEN 1 ELSE 0)]_vars

\* C20 witness: after rounds were added and one was deleted, a user with no
\* stored round is told of none while a round of another user is stored.
C20_Witness ==
    /\ Answered("dashboard_stats")
    /\ response.body.total_rounds = 0
    /\ DOMAIN rounds # {}
    /\ deleted # {}

\* The step is process p answering 400 "... already exists".
AlreadyExists(p) ==
    /\ regs'[p].pc = "done"
    /\ regs'[p].response.status = 400
    /\ regs'[p].response.message \in
           {"Username '" \o regs'[p].data.username \o "' already exists",
            "Email '" \o regs'[p].data.email \o "' already exists"}

\* No two stored users share a username and no two share an email.
NoDuplicateUsers ==
    \A a, b \in DOMAIN users :
        a # b => /\ users[a].username # users[b].username
                 /\ users[a].email # users[b].email

\* C17: a register request whose username or email is stored when
\* create_user looks for it is answered 400 "already exists", and after any
\* sequence of register requests, interleaved ones included, no two stored
\* users share a username and no two share an email.
C17_RegistrationUnique ==
    /\ []NoDuplicateUsers
    /\ [][\A p \in 1..MaxRegs :
            /\ (/\ regs[p].pc = "idle" /\ regs'[p].pc # "idle"
                /\ RegisterValidate(regs'[p].data) = None
                /\ UsernameTaken(regs'[p].data.username)) => AlreadyExists(p)
            /\ (/\ regs[p].pc = "check_email" /\ regs'[p].pc # "check_email"
                /\ EmailTaken(regs[p].data.email)) => AlreadyExists(p)]_vars

\* The token was signed by create_access_token and has not expired.
DecodesSuccessfully(tk) ==
    /\ tk \in IssuedTokens
    /\ now < Seconds(tk.payload.exp)

\* The request carries a Bearer token that decodes successfully and whose
\* subject is an existing, active user.
CarriesValidToken(parts) ==
    /\ Len(parts) = 2
    /\ parts[1] \in {"Bearer", "bearer"}
    /\ DecodesSuccessfully(parts[2])
    /\ "sub" \in DOMAIN parts[2].payload
    /\ parts[2].payload.sub \in DOMAIN users
    /\ users[parts[2].payload.sub].is_active

\* The step answers the protected request being handled.
AnswersProtected == AuthPc # "done" /\ AuthPc' = "done" /\ areq.op \in ProtectedOps

\* C16: no protected operation touches the rounds store or returns user data
\* unless the request carries a Bearer token that decodes successfully and
\* whose subject is an existing, active user (require_auth, or the FastAPI
\* dependency, saw such a token when it let the request through, and the
\* data returned is that user's); in the FastAPI deployment a request
\* without credentials is answered 403 and one with an invalid token 401.
C16_ProtectedNeedsValidToken ==
    [][/\ (AuthPc = "auth" /\ AuthPc' = "handler") => CarriesValidToken(areq.header)
       /\ (AnswersProtected /\ (aresp'.touched \/ aresp'.user # None)) =>
              /\ areq.deployment = "flask" => AuthPc = "handler"
              /\ areq.deployment = "fastapi" => CarriesValidToken(areq.header)
              /\ aresp'.user # None => aresp'.user.id = areq.header[2].payload.sub
       /\ (AnswersProtected /\ areq.deployment = "fastapi") =>
              /\ Len(areq.header) < 2 => aresp'.status = Rejected(403)
              /\ (/\ Len(areq.header) >= 2 /\ areq.header[1] = "Bearer"
                  /\ ~(Len(areq.header) = 2 /\ DecodesSuccessfully(areq.header[2])))
                     => aresp'.status = Rejected(401)]_vars

\* A log_round request of the Flask deployment with Alice's token has run its
\* handler for Alice, after Bob was deactivated.
C16_Witness ==
    /\ AuthPc = "done" /\ areq # None
    /\ areq.deployment = "flask" /\ areq.op = "log_round"
    /\ aresp.touched /\ aresp.user = UsedFor(Alice)
    /\ ~users[Bob.id].is_active

\* creation + d of an issued token, in ticks; d is the default expiry when
\* no delta was given.
Deadline(i) ==
    i.created + (IF i.expires_delta = None
                     THEN Minutes(ACCESS_TOKEN_EXPIRE_MINUTES)
                     ELSE Seconds(i.expires_delta.seconds))

\* The step returns from verify_token and decode_token called on tk.
Verifies(tk) ==
    AuthPc = "verify" /\ AuthPc' = "done" /\ areq.header[2] = tk

\* The tokens created for a user: claims with a subject and a username.
IssuedForUser == {i \in issued : {"sub", "username"} \subseteq DOMAIN i.token.payload}

\* C18: a token created by create_access_token with expiry delta d is
\* accepted by verify_token and decode_token at every time strictly before
\* creation + d, and at every time after creation + d verify_token is False,
\* decode_token is None and no protected route runs for its user; a token
\* created with a negative delta is never accepted.
C18_ExpiredTokensRejected ==
    [][\A i \in IssuedForUser :
        /\ (Verifies(i.token) /\ now < Deadline(i)) =>
               aresp'.verify_token /\ aresp'.decode_token # None
        /\ (Verifies(i.token) /\ now > Deadline(i)) =>
               ~aresp'.verify_token /\ aresp'.decode_token = None
        /\ (/\ Verifies(i.token) /\ i.expires_delta # None
            /\ i.expires_delta.seconds < 0) =>
               ~aresp'.verify_token /\ aresp'.decode_token = None
        /\ (/\ AnswersProtected /\ areq.header = <<"Bearer", i.token>>
            /\ now > Deadline(i)) => aresp'.user = None]_vars

\* The frames read so far that satisfy a condition, by position.
FramesRead == 1..pos
Detected(i) == src.frames[i].kind = "pose"

\* The wrist is more than 0.15 below the shoulder, on the coordinates.
Below(wrist_y, shoulder_y) ==
    LET d == RatSub(wrist_y, shoulder_y) IN d.num * 100 > 15 * d.den
GuardDownAt(i) ==
    LET lmk == src.frames[i].landmarks IN
    \/ Below(lmk.left_wrist_y, lmk.left_shoulder_y)
    \/ Below(lmk.right_wrist_y, lmk.right_shoulder_y)

\* C21: in analyze_video, total_frames counts all frames read, pose_frames
\* the frames with a detection, and guard_down_frames exactly the detected
\* frames with left_guard_height > 0.15 or right_guard_height > 0.15 (a
\* height of exactly 0.15 does not count); a frame without a detection
\* changes no sum and no counter other than the frame count.
C21_FrameCounters ==
    /\ [](pc \in {"loop", "done"} =>
            /\ locals.frame_idx = pos
            /\ locals.pose_detected_frames =
                   Cardinality({i \in FramesRead : Detected(i)})
            /\ locals.guard_down_frames =
                   Cardinality({i \in FramesRead : Detected(i) /\ GuardDownAt(i)})
            /\ Len(locals.head_y_values) = locals.pose_detected_frames)
    /\ [](pc = "done" =>
            /\ result.total_frames = locals.frame_idx
            /\ result.pose_frames = locals.pose_detected_frames)
    /\ [][(pc = "loop" /\ pos' = pos + 1 /\ src.frames[pos'].kind = "no_pose") =>
            locals' = [locals EXCEPT !.frame_idx = @ + 1]]_vars

\* C21's case: a video with a detection whose wrists are exactly 0.15 below
\* the shoulders, a detection with the left wrist 0.16 below, and a frame
\* without a detection has been analysed; one frame of two counts as guard down.
C21_Witness ==
    /\ pc = "done"
    /\ src.frames = <<PoseFrame(Landmarks(40, 55, 40, 55, 40, 65, 35, 75, 22)),
                      NoPoseFrame,
                      PoseFrame(Landmarks(40, 56, 40, 35, 45, 55, 40, 60, 20))>>
    /\ result.total_frames = 3
    /\ result.pose_frames = 2
    /\ result.guard_down_ratio = [num |-> 1, den |-> 2]

\* The coaching feedback of the request has been produced.
Coached == pure_pc = "return" /\ call.fn = "analyze_video"

\* The tier a danger score belongs to.
TierOf(d) ==
    IF d.num * 10 >= 7 * d.den THEN "high"
    ELSE IF d.num * 10 >= 4 * d.den THEN "moderate"
    ELSE "low"

\* C22: for every video danger score d, the focus label of
\* video_form_and_danger, the strategy title of get_strategy and the headline
\* of generate_video_coaching name the same tier: (defense_first,
\* DEFENSE_FIRST, HIGH RISK) iff d >= 0.7, (ring_cutting, RING_CUTTING,
\* MODERATE RISK) iff 0.4 <= d < 0.7, (pressure_and_body, PRESSURE_BODY,
\* LOW RISK) iff d < 0.4.
C22_TiersAgree ==
    Coached =>
        LET d == ret.enriched_metrics.video_danger_score
            labels == <<ret.enriched_metrics.video_focus_next_round,
                        ret.strategy[1], ret.coaching[1]>>
        IN  /\ TierOf(d) = "high" <=>
                   labels = <<"defense_first", "DEFENSE_FIRST", HIGH_RISK>>
            /\ TierOf(d) = "moderate" <=>
                   labels = <<"ring_cutting", "RING_CUTTING", MODERATE_RISK>>
            /\ TierOf(d) = "low" <=>
                   labels = <<"pressure_and_body", "PRESSURE_BODY", LOW_RISK>>

\* C22's case: feedback for a video whose danger score is exactly 0.7 (guard
\* down in half of the frames, no coverage) and names the high tier.
C22_Witness ==
    /\ Coached
    /\ ret.enriched_metrics.video_danger_score = Rat(7, 10)
    /\ ret.coaching[1] = HIGH_RISK
    /\ ret.strategy = DEFENSE_FIRST

\* The texts of each kind of section, for every number they may show.
Headlines == {HIGH_RISK, MODERATE_RISK, LOW_RISK}
MajorConcern ==
    {"Guard down " \o ToString(n) \o "% of the time - MAJOR concern." : n \in 0..100}
NeedsWork ==
    {"Guard dropping " \o ToString(n) \o "% of frames - needs work." : n \in 0..100}
SolidGuard ==
    {"Solid guard discipline (" \o ToString(n) \o "% down)." : n \in 0..100}
TrackingCaveats ==
    {"Low tracking coverage (" \o ToString(n) \o "%) - video quality issue or angles." :
        n \in 0..100}
WeakHip ==
    {"Hip rotation weak (" \o ToString(n) \o " deg) - work on stance and pivots." :
        n \in 0..180}
GoodHip ==
    {"Good hip rotation (" \o ToString(n) \o " deg) - generating power." : n \in 0..180}

\* The positions of a list of parts that hold a text of set S.
Where(parts, S) == {i \in DOMAIN parts : parts[i] \in S}

\* C23: generate_video_coaching emits exactly one risk headline first; then
\* exactly one guard comment (major concern iff guard_down_ratio > 0.3, needs
\* work iff 0.15 < guard_down_ratio <= 0.3, solid otherwise); then the
\* tracking caveat iff pose_coverage < 0.5; then at most one hip comment (weak
\* iff avg_hip_rotation < 25, good iff avg_hip_rotation > 40, none in
\* [25, 40]); and the given strategy text, verbatim, always last.
C23_CoachingSections ==
    Coached =>
        LET m == ret.enriched_metrics
            parts == ret.coaching
            g == m.guard_down_ratio
            h == m.avg_hip_rotation
            major == g.num * 10 > 3 * g.den
            needs == ~major /\ g.num * 100 > 15 * g.den
            caveat == m.pose_coverage.num * 2 < m.pose_coverage.den
            weak == h.num < 25 * h.den
            good == h.num > 40 * h.den
            guards == MajorConcern \cup NeedsWork \cup SolidGuard
        IN  /\ Where(parts, Headlines) = {1}
            /\ Where(parts, guards) = {2}
            /\ parts[2] \in MajorConcern <=> major
            /\ parts[2] \in NeedsWork <=> needs
            /\ parts[2] \in SolidGuard <=> (~major /\ ~needs)
            /\ Where(parts, TrackingCaveats) = IF caveat THEN {3} ELSE {}
            /\ Where(parts, WeakHip) = IF weak THEN {Len(parts) - 1} ELSE {}
            /\ Where(parts, GoodHip) = IF good THEN {Len(parts) - 1} ELSE {}
            /\ parts[Len(parts)] = "\nStrategy: " \o ret.strategy[2]
            /\ Len(parts) = 3 + (IF caveat THEN 1 ELSE 0)
                               + (IF weak \/ good THEN 1 ELSE 0)

\* C23's case: feedback for a video with the guard down in exactly 30% of
\* the frames, a coverage of 0.49 and a hip rotation of exactly 25 degrees:
\* headline, "needs work", the tracking caveat, no hip comment, the strategy.
C23_Witness ==
    /\ Coached
    /\ ret.enriched_metrics.guard_down_ratio = Rat(3, 10)
    /\ ret.enriched_metrics.pose_coverage = Rat(49, 100)
    /\ ret.enriched_metrics.avg_hip_rotation = Int2Rat(25)
    /\ Len(ret.coaching) = 4
    /\ ret.coaching[2] = "Guard dropping 30% of frames - needs work."

\* C24: the pose detector is invoked exactly once for every frame the frame
\* source yields, in source order, with no frame skipped, repeated or
\* reordered (the calls made are those for frames 1, 2, ... up to the frame
\* last read, short of it only when converting that frame raised), and the
\* number of detector invocations equals total_frames in the returned record.
C24_DetectorOncePerFrame ==
    /\ \A i \in DOMAIN detect_calls : detect_calls[i] = i
    /\ pc \in {"loop", "done"} => Len(detect_calls) = pos
    /\ pc = "raised" /\ src.openable =>
           /\ Len(detect_calls) \in {pos - 1, pos}
           /\ Len(detect_calls) = pos - 1 => src.frames[pos].at = "cvtColor"
    /\ pc = "done" => result.total_frames = Len(detect_calls)

\* C24's case: a video of four frames, the second and third without a
\* detection, has been analysed with four detector calls in order.
C24_Witness ==
    /\ pc = "done"
    /\ Len(src.frames) = 4
    /\ src.frames[2] = NoPoseFrame /\ src.frames[3] = NoPoseFrame
    /\ src.frames[4].kind = "pose"
    /\ detect_calls = <<1, 2, 3, 4>>
    /\ result.total_frames = 4


\* The rounds of user uid in the collection.
RoundsOf(uid) == {i \in DOMAIN rounds : rounds[i].user_id = uid}

\* The round of greatest date among those of ids (dates are server
\* timestamps, no two alike).
Latest(ids) == CHOOSE i \in ids : \A j \in ids : rounds[j].date.ts <= rounds[i].date.ts

\* The last request handled was a dashboard_stats that was answered with the
\* statistics.
DashboardAnswered ==
    /\ request # None /\ request.op = "dashboard_stats"
    /\ response.status = 200

\* C25: the next_game_plan answered by dashboard_stats is the strategy of
\* the user's most recent round: its title and text are the strategy_title
\* and strategy_text stored with the round of greatest date among the user's
\* rounds, whether log_round or analyze_video stored it.
C25_PlanOfMostRecentRound ==
    DashboardAnswered /\ RoundsOf(request.user.id) # {} =>
        LET latest == rounds[Latest(RoundsOf(request.user.id))]
        IN  response.body.next_game_plan
                = [title |-> latest.strategy_title, text |-> latest.strategy_text]

\* The user's most recent round is a video round stored with another
\* strategy than the one the dashboard answers.
C25_VideoRoundDiverges ==
    /\ DashboardAnswered /\ RoundsOf(request.user.id) # {}
    /\ LET latest == rounds[Latest(RoundsOf(request.user.id))]
       IN  /\ IsVideoRound(latest)
           /\ response.body.next_game_plan.title # latest.strategy_title
\* The statement of C25 for the users whose most recent round log_round
\* stored.
C25_ManualRoundsAgree ==
    /\ DashboardAnswered /\ RoundsOf(request.user.id) # {}
    /\ ~IsVideoRound(rounds[Latest(RoundsOf(request.user.id))])
    => response.body.next_game_plan
         = [title |-> rounds[Latest(RoundsOf(request.user.id))].strategy_title,
            text |-> rounds[Latest(RoundsOf(request.user.id))].strategy_text]

\* analyze_video has returned a record whose guard_down_ratio is 0.
GuardNeverDown == pc = "done" /\ result.guard_down_ratio = Zero

\* C26: for every record analyze_video returns (pose_frames <= total_frames,
\* the ratios derived from the counters) with guard_down_ratio = 0, the
\* danger of video_form_and_danger is at most 0.4 and get_strategy never
\* answers DEFENSE_FIRST for it: it answers RING_CUTTING exactly when
\* pose_frames = 0 and PRESSURE_BODY whenever a frame had a detection.
C26_GuardUpNeverDefenseFirst ==
    GuardNeverDown =>
        LET danger == video_form_and_danger(result).video_danger_score
            strategy == get_strategy(danger)
        IN  /\ 0 <= result.pose_frames /\ result.pose_frames <= result.total_frames
            /\ RatLE(danger, Rat(4, 10))
            /\ strategy # DEFENSE_FIRST
            /\ strategy = RING_CUTTING <=> result.pose_frames = 0
            /\ result.pose_frames > 0 => strategy = PRESSURE_BODY

\* C26 witness: a clip of four frames, one of them with a detection and the
\* guard up, has been analysed: coverage 1/4, danger 0.3.
C26_Witness ==
    /\ GuardNeverDown
    /\ result.total_frames = 4 /\ result.pose_frames = 1
    /\ video_form_and_danger(result).video_danger_score = Rat(3, 10)
    /\ get_strategy(Rat(3, 10)) = PRESSURE_BODY

\* The last request handled was an analyze_video whose handler created the
\* temporary file (line 571).
TempFileCreated ==
    /\ request # None /\ request.op = "analyze_video"
    /\ temp_file # "none"

\* C27: the temporary file of the analyze_video endpoint is deleted on every
\* exit path after its creation: success, a failure while the upload is
\* saved into it, a ValueError of analyze_video_file, a failure of the
\* scoring or of the store write, and any other exception.
C27_TempFileDeleted == TempFileCreated => temp_file = "deleted"

\* The statement of C27 for the paths that reach the inner try block (line
\* 575): the upload was saved.
C27_DeletedOnceSaved ==
    TempFileCreated /\ ~request.save_fails => temp_file = "deleted"

\* The upload could not be saved, the handler answered 500 and the file is
\* still there.
C27_LeftAfterSaveFailure ==
    /\ TempFileCreated /\ request.save_fails
    /\ response.status = 500 /\ temp_file = "left"

\* The user a pending request speaks for: the one named by the credentials
\* of a login, or the subject of the token of a refresh or of a protected
\* request; None when there is no such user.
SubjectOf(req) ==
    IF req.op = "auth/login"
    THEN LET user == get_user_by_username(users, req.credentials.username)
         IN  IF user = None THEN None ELSE [id |-> user.id]
    ELSE LET token == IF req.op = "auth/refresh" THEN req.refresh_token_str
                      ELSE req.header[2]
         IN  IF "sub" \in DOMAIN token.payload /\ token.payload.sub \in DOMAIN users
             THEN [id |-> token.payload.sub] ELSE None

\* A request has arrived and none of its handler's code has run yet.
Arrived == AuthPc \in {"auth", "login", "refresh"}

\* The pending request speaks for a deactivated user.
ForDeactivatedUser ==
    /\ Arrived
    /\ SubjectOf(areq) # None
    /\ ~users[SubjectOf(areq).id].is_active

\* C28: once a user's account is deactivated it stays so, and every login by
\* that user and every protected request or token refresh bearing a token
\* issued to that user (also one issued before the deactivation and not yet
\* expired) that arrives afterwards is rejected: it is answered with an
\* error status, issues no token and neither reads nor writes round data.
C28_DeactivatedUserLockedOut ==
    /\ [][\A id \in DOMAIN users : ~users[id].is_active => ~users'[id].is_active]_vars
    /\ [][ForDeactivatedUser /\ aresp' # aresp =>
            /\ aresp'.pc = "done"
            /\ aresp'.status # None
            /\ aresp'.user = None
            /\ ~aresp'.touched
            /\ issued' = issued]_vars

\* C28 witness: Alice's account is deactivated, and a refresh with a token
\* issued to her before that, still unexpired, has been answered with 401.
C28_Witness ==
    /\ ~users[Alice.id].is_active
    /\ areq # None /\ areq.op = "auth/refresh"
    /\ areq.refresh_token_str \in IssuedTokens
    /\ decode_token_fastapi(areq.refresh_token_str, now, tz) # None
    /\ areq.refresh_token_str.payload.sub = Alice.id
    /\ AuthReady /\ aresp.status = Rejected(401)

\* The token was made by create_refresh_token: it carries type = refresh.
IsRefreshToken(token) ==
    /\ "type" \in DOMAIN token.payload
    /\ token.payload.type = "refresh"

\* The token is signed with the server's key, not expired at time t, and its
\* subject is a stored, active user.
GoodFor(token, store, t) ==
    /\ jwt_decode(token, SECRET_KEY, t) # InvalidTokenError
    /\ "sub" \in DOMAIN token.payload
    /\ token.payload.sub \in DOMAIN store
    /\ store[token.payload.sub].is_active

\* POST /auth/refresh is being answered in this step.
RefreshAnswered == AuthPc = "refresh" /\ aresp' # aresp

\* C29: POST /auth/refresh issues a new access token only when it is given
\* an unexpired token made by create_refresh_token (type = refresh) for an
\* existing, active user; an ordinary access token, an expired token and a
\* malformed one are rejected with 401 and no token is issued.
C29_RefreshNeedsRefreshToken ==
    [][RefreshAnswered =>
          IF /\ IsRefreshToken(areq.refresh_token_str)
             /\ GoodFor(areq.refresh_token_str, users, now)
          THEN "access_token" \in DOMAIN aresp'
          ELSE /\ aresp'.status = Rejected(401)
               /\ "access_token" \notin DOMAIN aresp'
               /\ issued' = issued]_vars

\* The statement of C29 without the type of the token: a new access token is
\* issued exactly for an unexpired token of an existing, active user, and
\* the others are answered 401 without a token.
C29_RefreshNeedsGoodToken ==
    [][RefreshAnswered =>
          IF GoodFor(areq.refresh_token_str, users, now)
          THEN "access_token" \in DOMAIN aresp'
          ELSE /\ aresp'.status = Rejected(401)
               /\ "access_token" \notin DOMAIN aresp'
               /\ issued' = issued]_vars

\* The access token of a login was sent to /auth/refresh and a new access
\* token came back.
C29_AccessTokenRefreshed ==
    /\ AuthReady /\ areq # None /\ areq.op = "auth/refresh"
    /\ areq.refresh_token_str \in IssuedTokens
    /\ ~IsRefreshToken(areq.refresh_token_str)
    /\ "access_token" \in DOMAIN aresp

\* The last min(k, Len(history)) elements of history.
LastOf(history, k) ==
    LET n == Len(history)
        m == IF k < n THEN k ELSE n
    IN  SubSeq(history, n - m + 1, n)

\* The last call was get_recent, and what the pair had appended by then.
GotRecent == mem_call # None /\ mem_call.fn = "get_recent"
HistoryAsked == appended[<<mem_call.agent_id, mem_call.user_id>>]

\* The last call was chat, and what the pair had appended before it; the
\* messages the LLM was given are those of a chat that saw history.
Chatted == mem_call # None /\ mem_call.fn = "chat"
HistoryBeforeChat ==
    LET h == appended[<<mem_call.agent_id, mem_call.user_id>>]
    IN  IF mem_ret.reply = None THEN h ELSE SubSeq(h, 1, Len(h) - 1)
MessagesFor(history) ==
    <<[role |-> "system", content |-> "You are a boxing coach."]>>
    \o (IF history = <<>> THEN <<>>
        ELSE <<[role |-> "system",
                content |-> "Recent history:\n" \o JoinLines(history)]>>)
    \o (IF mem_call.context_data = "" THEN <<>>
        ELSE <<[role |-> "system",
                content |-> "Current stats:\n" \o mem_call.context_data]>>)
    \o <<[role |-> "user", content |-> mem_call.message]>>

\* C30: after any sequence of SimpleMemoryStore.append calls,
\* get_recent(agent_id, user_id, k) returns for every k >= 0 at most k
\* contents: exactly the last min(k, n) of the n contents appended for that
\* (agent_id, user_id) pair, in append order, and never a content of another
\* agent or user; MemoryBackedLLM.chat therefore hands the LLM at most the 5
\* most recent interactions of the same agent and user.
C30_RecentIsLastK ==
    /\ GotRecent =>
          /\ Len(mem_ret.contents) <= mem_call.k
          /\ mem_ret.contents = LastOf(HistoryAsked, mem_call.k)
    /\ Chatted => mem_ret.messages = MessagesFor(LastOf(HistoryBeforeChat, ChatK))

\* The statement of C30 for k >= 1, and for chat.
C30_RecentIsLastKPositive ==
    /\ GotRecent /\ mem_call.k >= 1 =>
          /\ Len(mem_ret.contents) <= mem_call.k
          /\ mem_ret.contents = LastOf(HistoryAsked, mem_call.k)
    /\ Chatted => mem_ret.messages = MessagesFor(LastOf(HistoryBeforeChat, ChatK))

\* get_recent was asked for k = 0 contents of a pair with two stored contents
\* and returned both.
C30_ZeroReturnsAll ==
    /\ GotRecent /\ mem_call.k = 0
    /\ Len(HistoryAsked) = 2
    /\ mem_ret.contents = HistoryAsked

\* A chat of a pair with six stored interactions handed the LLM the last five.
C30_ChatSawFive ==
    /\ Chatted /\ Len(HistoryBeforeChat) = 6
    /\ mem_ret.messages = MessagesFor(SubSeq(HistoryBeforeChat, 2, 6))


====
